---- MODULE Spec2Model ----
(***************************************************************************)
(* Chunk lifecycle manager of the flight simulator: the chunk registry     *)
(* (ChunkManager), the systems generate_chunks, modify_plane,              *)
(* handle_compute_tasks, update_chunk_lod, despawn_out_of_bounds_chunks    *)
(* and the seed reset of receive_server_messages, run by the Update and    *)
(* PostUpdate schedules with deferred commands.                            *)
(*                                                                         *)
(* Conventions.  Option<T> is a sequence: <<>> is None, <<v>> is Some(v).  *)
(* The viewpoint position is kept in half chunk units (position / 500.0),  *)
(* so that (pos / CHUNK_SIZE).round() is a real rounding.  Distances of    *)
(* the LOD table are kept in hundredths of a chunk.  A mesh is the record  *)
(* [sub, gen, at]: its subdivision count, the seed of the generator that   *)
(* displaced it (gen = 0: the flat plane that was never displaced) and the *)
(* chunk coordinate of the Transform its vertices were displaced at (<<>>  *)
(* for the flat plane).                                                    *)
(***************************************************************************)
EXTENDS Integers, Sequences, FiniteSets, TLC

VARIABLES
    cam,                  \* MainCamera Transform.translation (x, z), half chunk units
    prev_cam,             \* the translation before the last camera movement
    seed,                 \* WorldGenerator.seed
    spawned_chunks,       \* ChunkManager.spawned_chunks
    last_camera_chunk,    \* ChunkManager.last_camera_chunk
    to_spawn,             \* ChunkManager.to_spawn
    lod_to_update,        \* ChunkManager.lod_to_update
    render_distance,      \* ChunkManager.render_distance
    lod_quality_multiplier,
    lod_distance_multiplier,
    max_chunks_per_frame, \* WorldGenerationSettings.max_chunks_per_frame
    just_updated,         \* RenderSettings.just_updated
    last_render_distance, \* Local of generate_chunks
    last_cam_pos,         \* Local of update_chunk_lod
    ent,                  \* the live Chunk entities: entity id -> components
    meshes,               \* Assets<Mesh>: handle id -> mesh
    next_entity,          \* entity allocator
    next_handle,          \* mesh handle allocator
    cmds,                 \* deferred commands of the running schedule, per system
    inbox,                \* server messages received and not yet drained (Welcome seeds)
    phase,                \* "idle" | "update" | "post"
    todo,                 \* systems of the running schedule that have not run yet
    trace,                \* what the systems of this frame did (locals that are read by the properties)
    moves_left,           \* remaining viewpoint movements
    resets_left,          \* remaining server Welcome messages
    settings_left,        \* remaining changes in the debugger UI
    frames_left,          \* remaining frames
    terrain,              \* the terrain functions under test: their inputs and what they returned
    client,               \* Option<NetworkClient>: the resource of the connection to the relay server
    server                \* the relay server: GameServer and its handle_client tasks

registry == <<spawned_chunks, last_camera_chunk, to_spawn, lod_to_update>>
settings == <<render_distance, lod_quality_multiplier, lod_distance_multiplier,
              max_chunks_per_frame>>
budgets  == <<moves_left, resets_left, settings_left, frames_left>>
world == <<cam, prev_cam, seed, registry, settings, just_updated, last_render_distance,
           last_cam_pos, ent, meshes, next_entity, next_handle, cmds, inbox, phase,
           todo, trace, budgets>>
vars == <<world, terrain, client, server>>

(***************************************************************************)
(* Bounds of the model.                                                    *)
(***************************************************************************)
MaxFrames == 3
MaxMoves == 1
MaxResets == 1
MaxSettingsChanges == 1
MaxRenderDistance == 2
MaxChunksPerFrame == 2
MaxOrderedBuilds == 4
MaxDistanceSq == 70
MaxPaletteHeight == 350
MaxRawNoise == 120
MaxStaleQueue == 3
MaxJitterMoves == 2
MaxJitterFrames == 2
MaxClients == 2
MaxPositionUpdates == 2

(***************************************************************************)
(* Values of the settings the debugger UI can choose, and the seeds of the *)
(* worlds (the local world of setup and the servers' worlds).  The world   *)
(* is run at a small scale: render distances from 1 and budgets from 1 in  *)
(* place of the 40 and 100 of main and of the sliders' 2..=150 and         *)
(* 1..=500, LOD distance multipliers 1 and 2 of the slider's 1.0..=25.0.   *)
(* The viewpoint takes the centre of chunk (0,0), the boundary towards     *)
(* chunk (1,0) and the corner towards chunk (-1,1).                        *)
(***************************************************************************)
RenderDistances == 1..MaxRenderDistance
ChunkBudgets == 1..MaxChunksPerFrame
QualityMultipliers == {1, 2}
DistanceMultipliers == {1, 2}
LocalSeed == 3
ServerSeeds == {4}
CamPositions == {<<0, 0>>, <<1, 0>>, <<-1, 1>>}

UpdateSystems == {"camera_controls", "generate_chunks", "modify_plane",
                  "handle_compute_tasks", "update_chunk_lod",
                  "receive_server_messages"}
PostUpdateSystems == {"despawn_out_of_bounds_chunks", "camera_follow_aircraft"}

(***************************************************************************)
(* Pure helpers.                                                           *)
(***************************************************************************)
\* (translation / CHUNK_SIZE).round() as i32 on a position in half chunk
\* units: f32::round rounds half-way cases away from zero.
Round(p) == IF p >= 0 THEN (p + 1) \div 2 ELSE -((1 - p) \div 2)

CamChunkOf(pos) == <<Round(pos[1]), Round(pos[2])>>
CamChunk == CamChunkOf(cam)

\* dx * dx + dz * dz
DistSq(c, d) == (c[1] - d[1]) * (c[1] - d[1]) + (c[2] - d[2]) * (c[2] - d[2])

\* ChunkManager.lod_levels: (max_distance in hundredths of a chunk, subdivisions)
lod_levels == << <<70, 20>>, <<125, 15>>, <<200, 8>>, <<300, 3>>, <<400, 1>> >>

\* Variant: a distance beyond the last band gets the first band's count.
RECURSIVE LodBandFirst(_, _, _, _)
LodBandFirst(i, distance_sq, qmul, dmul) ==
    IF i > Len(lod_levels) THEN lod_levels[1][2] * qmul
    ELSE IF distance_sq * 10000 <= (lod_levels[i][1] * dmul) * (lod_levels[i][1] * dmul)
         THEN lod_levels[i][2] * qmul
         ELSE LodBandFirst(i + 1, distance_sq, qmul, dmul)

\* The loop of get_lod_subdivisions from band i on: the first band whose
\* scaled distance reaches sqrt(distance_sq) gives the count, and the last
\* band gives it when none does.
RECURSIVE LodBand(_, _, _, _)
LodBand(i, distance_sq, qmul, dmul) ==
    IF i > Len(lod_levels) THEN lod_levels[Len(lod_levels)][2] * qmul
    ELSE IF distance_sq * 10000 <= (lod_levels[i][1] * dmul) * (lod_levels[i][1] * dmul)
         THEN lod_levels[i][2] * qmul
         ELSE LodBand(i + 1, distance_sq, qmul, dmul)

get_lod_subdivisions(distance_sq, qmul, dmul) == LodBand(1, distance_sq, qmul, dmul)

\* Variant: the queue is left in the order of the scan.
StableSortNone(s) == s

\* slice::sort_by on <<item, key>> pairs, ascending by key; the sort is stable.
RECURSIVE StableSort(_)
StableSort(s) ==
    IF Len(s) <= 1 THEN s
    ELSE LET rest == StableSort(Tail(s))
             h == Head(s)
             k == Cardinality({i \in 1..Len(rest) : rest[i][2] < h[2]})
         IN  SubSeq(rest, 1, k) \o <<h>> \o SubSeq(rest, k + 1, Len(rest))

Items(pairs) == [i \in 1..Len(pairs) |-> pairs[i][1]]
Range(s) == {s[i] : i \in 1..Len(s)}

\* The entities of a set in the order a query iterates them (by entity id).
RECURSIVE SetToSeq(_)
SetToSeq(S) ==
    IF S = {} THEN <<>>
    ELSE LET m == CHOOSE x \in S : \A y \in S : x <= y
         IN  <<m>> \o SetToSeq(S \ {m})

(***************************************************************************)
(* The entity store seen by a system's queries.                            *)
(***************************************************************************)
Entities == DOMAIN ent
HasTask(e) == ent[e].task # <<>>
Coord(e) == <<ent[e].x, ent[e].z>>
LiveCoords == {Coord(e) : e \in Entities}

\* updated: just_updated when the frame began; g_rescan, g_scan: whether
\* generate_chunks rescanned, and to_spawn as its drain loop found it; l_rescan:
\* whether update_chunk_lod rescanned; moved: whether the camera has moved in
\* this frame; d_cam: the camera translation that despawn_out_of_bounds_chunks
\* read, and the one before its last movement; d_moved: whether that movement
\* was in this frame; d_rd: the render distance it read.
NoTrace == [updated |-> FALSE, g_rescan |-> FALSE, g_scan |-> <<>>,
            l_rescan |-> FALSE, moved |-> FALSE, d_cam |-> <<>>, d_moved |-> FALSE,
            d_rd |-> <<>>, order |-> <<>>]

\* The field order of trace is kept across frames.  A behaviour that starts
\* with order = <<"">> records in it the one of generate_chunks and
\* update_chunk_lod that the Update schedule of the first frame ran before the
\* other; a behaviour that starts with order = <<>> records nothing.
FirstOf(system) == IF trace.order = <<"">> THEN <<system>> ELSE trace.order

(***************************************************************************)
(* generate_chunks                                                         *)
(***************************************************************************)
\* Variant: the flag is read inverted.
GenerateNeedsRescanFlagInverted(c, last_chunk, rd, last_rd, updated) ==
    last_chunk # <<c>> \/ last_rd # <<rd>> \/ ~updated

\* The rescan condition of generate_chunks.
GenerateNeedsRescan(c, last_chunk, rd, last_rd, updated) ==
    last_chunk # <<c>> \/ last_rd # <<rd>> \/ updated

\* Variant: the edge of the disk is left out.
InRenderDistanceStrict(p, c, rd) == DistSq(p, c) < rd * rd

\* distance_sq <= render_distance_sq
InRenderDistance(p, c, rd) == DistSq(p, c) <= rd * rd

\* Variant: the registry is not consulted.
ShouldSpawnUnregistered(p, c, rd, spawned) == DistSq(p, c) <= rd * rd

\* The test of the rescan and the "final check" of the drain.
ShouldSpawn(p, c, rd, spawned) == InRenderDistance(p, c, rd) /\ p \notin spawned

\* for x in cam_x - rd ..= cam_x + rd { for z in cam_z - rd ..= cam_z + rd { .. } }
ScanSquare(c, rd) ==
    [k \in 1..((2 * rd + 1) * (2 * rd + 1)) |->
        <<c[1] - rd + ((k - 1) \div (2 * rd + 1)), c[2] - rd + ((k - 1) % (2 * rd + 1))>>]

\* to_spawn after the rescan: the coordinates in range that are not spawned,
\* sorted by distance to the camera chunk.
RescanQueue(c, rd, spawned) ==
    LET found == SelectSeq(ScanSquare(c, rd), LAMBDA p : ShouldSpawn(p, c, rd, spawned))
    IN  Items(StableSort([i \in 1..Len(found) |-> <<found[i], DistSq(found[i], c)>>]))

\* Variant: one more iteration.
BudgetLeftInclusive(count, max) == count <= max

\* spawned_count < settings.max_chunks_per_frame
BudgetLeft(count, max) == count < max

\* Variant: an entry that fails the final check ends the drain of the tick.
RECURSIVE DrainSpawnBreak(_, _, _, _, _, _)
DrainSpawnBreak(queue, spawned, out, c, rd, max) ==
    IF ~BudgetLeft(Len(out), max) \/ queue = <<>>
    THEN [queue |-> queue, spawned |-> spawned, out |-> out]
    ELSE LET p == Head(queue)
         IN  IF ShouldSpawn(p, c, rd, spawned)
             THEN DrainSpawnBreak(Tail(queue), spawned \cup {p}, Append(out, p), c, rd, max)
             ELSE [queue |-> Tail(queue), spawned |-> spawned, out |-> out]

\* The drain loop of generate_chunks: out lists the coordinates it spawns.
RECURSIVE DrainSpawn(_, _, _, _, _, _)
DrainSpawn(queue, spawned, out, c, rd, max) ==
    IF ~BudgetLeft(Len(out), max) \/ queue = <<>>
    THEN [queue |-> queue, spawned |-> spawned, out |-> out]
    ELSE LET p == Head(queue)
         IN  IF ShouldSpawn(p, c, rd, spawned)
             THEN DrainSpawn(Tail(queue), spawned \cup {p}, Append(out, p), c, rd, max)
             ELSE DrainSpawn(Tail(queue), spawned, out, c, rd, max)

\* Mesh handles: meshes.add of generate_chunks for entity e yields 2e, the
\* k-th meshes.add of update_chunk_lod yields 2k + 1.
SpawnHandle(e) == 2 * e
LodHandle(k) == 2 * k + 1

generate_chunks ==
    /\ phase = "update" /\ "generate_chunks" \in todo
    /\ LET c == CamChunk
           rescan == GenerateNeedsRescan(c, last_camera_chunk, render_distance,
                                         last_render_distance, just_updated)
           scanned == IF rescan THEN RescanQueue(c, render_distance, spawned_chunks)
                      ELSE to_spawn
           d == DrainSpawn(scanned, spawned_chunks, <<>>, c, render_distance,
                           max_chunks_per_frame)
           n == Len(d.out)
           lod(i) == get_lod_subdivisions(DistSq(d.out[i], c), lod_quality_multiplier,
                                          lod_distance_multiplier)
       IN  /\ last_camera_chunk' = IF rescan THEN <<c>> ELSE last_camera_chunk
           /\ last_render_distance' = IF rescan THEN <<render_distance>>
                                      ELSE last_render_distance
           /\ just_updated' = IF rescan THEN FALSE ELSE just_updated
           /\ to_spawn' = d.queue
           /\ spawned_chunks' = d.spawned
           /\ meshes' = [h \in DOMAIN meshes \cup {SpawnHandle(next_entity + i - 1) : i \in 1..n} |->
                            IF h \in DOMAIN meshes THEN meshes[h]
                            ELSE [sub |-> lod(h \div 2 - next_entity + 1), gen |-> 0, at |-> <<>>]]
           /\ cmds' = [cmds EXCEPT !["generate_chunks"] = [i \in 1..n |->
                         [op |-> "spawn", e |-> next_entity + i - 1,
                          arg |-> [x |-> d.out[i][1], z |-> d.out[i][2], lod |-> lod(i),
                                   mesh |-> SpawnHandle(next_entity + i - 1)]]]]
           /\ next_entity' = next_entity + n
           /\ trace' = [trace EXCEPT !.g_rescan = rescan, !.g_scan = scanned,
                                     !.order = FirstOf("generate_chunks")]
    /\ todo' = todo \ {"generate_chunks"}
    /\ UNCHANGED <<terrain, client, server, cam, prev_cam, seed, lod_to_update, settings, last_cam_pos, ent,
                   next_handle, inbox, phase, budgets>>

(***************************************************************************)
(* modify_plane: launches the initial build of every chunk that was added  *)
(* since the system last ran.                                              *)
(***************************************************************************)
\* The query of modify_plane: Added<Chunk>.
\* Variant: every build displaces its vertices about the world origin.
transform_cloneOrigin(e) == <<0, 0>>

\* The Transform a build task captures when it is launched: the translation
\* of the chunk it is launched for, in chunk units.
transform_clone(e) == Coord(e)

AddedChunks == {e \in Entities : ent[e].added}

modify_plane ==
    /\ phase = "update" /\ "modify_plane" \in todo
    /\ LET launch == SetToSeq({e \in AddedChunks : ent[e].mesh \in DOMAIN meshes})
       IN  cmds' = [cmds EXCEPT !["modify_plane"] = [i \in 1..Len(launch) |->
                      [op |-> "insert_task", e |-> launch[i],
                       arg |-> [new_handle |-> <<>>, done |-> FALSE,
                                mesh |-> [sub |-> meshes[ent[launch[i]].mesh].sub,
                                          gen |-> seed, at |-> transform_clone(launch[i])]]]]]
    /\ ent' = [e \in Entities |-> [ent[e] EXCEPT !.added = FALSE]]
    /\ todo' = todo \ {"modify_plane"}
    /\ UNCHANGED <<terrain, client, server, cam, prev_cam, seed, registry, settings, just_updated,
                   last_render_distance, last_cam_pos, meshes, next_entity, next_handle,
                   inbox, phase, trace, budgets>>

(***************************************************************************)
(* handle_compute_tasks: polls the pending builds nearest first and swaps  *)
(* in those that are ready.  Whether a build is ready when it is polled is *)
(* decided by the worker pool: ready is any subset of the pending builds.  *)
(***************************************************************************)
\* The query of handle_compute_tasks: the chunks that carry a ChunkTask.
TaskQuery == {e \in Entities : HasTask(e) /\ ~ent[e].task[1].done}

\* Variant: task_priorities is left in the order of the query.
TaskPrioritiesUnsorted(c) == SetToSeq(TaskQuery)

\* task_priorities after the sort
TaskPriorities(c) ==
    LET q == SetToSeq(TaskQuery)
    IN  Items(StableSort([i \in 1..Len(q) |-> <<q[i], DistSq(Coord(q[i]), c)>>]))

\* Variant: the poll waits for the build.
PollOnceBlocking(e, ready) == TRUE

\* future::block_on(future::poll_once(&mut task.task)) is Some(new_mesh): the
\* build of e has finished; otherwise the poll returns None at once.
PollOnce(e, ready) == e \in ready

\* The poll loop: the entities whose build is swapped in, in order.
RECURSIVE PollLoop(_, _, _, _)
PollLoop(order, ready, out, max) ==
    IF order = <<>> \/ ~BudgetLeft(Len(out), max) THEN out
    ELSE IF PollOnce(Head(order), ready)
         THEN PollLoop(Tail(order), ready, Append(out, Head(order)), max)
         ELSE PollLoop(Tail(order), ready, out, max)

\* Variant: every build writes its result into the first mesh of the store.
SwapMeshUnkeyed(store, e) ==
    IF DOMAIN store = {} THEN store
    ELSE LET h == CHOOSE k \in DOMAIN store : \A j \in DOMAIN store : k <= j
         IN  [store EXCEPT ![h] = ent[e].task[1].mesh]

\* Variant: the result of a rebuild is not written into its new handle.
SwapMeshUnwritten(store, e) ==
    LET t == ent[e].task[1]
    IN  IF t.new_handle # <<>>
        THEN [k \in DOMAIN store \ {ent[e].mesh} |-> store[k]]
        ELSE IF ent[e].mesh \in DOMAIN store
             THEN [store EXCEPT ![ent[e].mesh] = t.mesh]
             ELSE store
\* The mesh store after the result of e's build is moved into it.
SwapMesh(store, e) ==
    LET t == ent[e].task[1]
    IN  IF t.new_handle # <<>>
        THEN LET h == t.new_handle[1]
                 written == IF h \in DOMAIN store
                            THEN [store EXCEPT ![h] = t.mesh] ELSE store
             IN  [k \in DOMAIN written \ {ent[e].mesh} |-> written[k]]
        ELSE IF ent[e].mesh \in DOMAIN store
             THEN [store EXCEPT ![ent[e].mesh] = t.mesh]
             ELSE store

RECURSIVE SwapMeshes(_, _)
SwapMeshes(store, done) ==
    IF done = <<>> THEN store ELSE SwapMeshes(SwapMesh(store, Head(done)), Tail(done))

\* The commands handle_compute_tasks queues for a completed build.
SwapCommands(e) ==
    LET t == ent[e].task[1]
    IN  (IF t.new_handle # <<>>
         THEN <<[op |-> "set_mesh", e |-> e, arg |-> t.new_handle[1]]>> ELSE <<>>)
        \o <<[op |-> "remove_task", e |-> e, arg |-> 0],
             [op |-> "set_visible", e |-> e, arg |-> 0]>>

\* The ChunkTask after its poll returned the mesh: task.new_handle.take().
PolledTask(t) == [t EXCEPT !.new_handle = <<>>, !.done = TRUE]

RECURSIVE Flatten(_)
Flatten(ss) == IF ss = <<>> THEN <<>> ELSE Head(ss) \o Flatten(Tail(ss))

handle_compute_tasks ==
    /\ phase = "update" /\ "handle_compute_tasks" \in todo
    /\ \E ready \in SUBSET TaskQuery :
          LET done == PollLoop(TaskPriorities(CamChunk), ready, <<>>,
                               max_chunks_per_frame)
          IN  /\ meshes' = SwapMeshes(meshes, done)
              /\ ent' = [e \in Entities |->
                           IF e \in Range(done)
                           THEN [ent[e] EXCEPT !.task = <<PolledTask(ent[e].task[1])>>]
                           ELSE ent[e]]
              /\ cmds' = [cmds EXCEPT !["handle_compute_tasks"] =
                             Flatten([i \in 1..Len(done) |-> SwapCommands(done[i])])]
    /\ todo' = todo \ {"handle_compute_tasks"}
    /\ UNCHANGED <<terrain, client, server, cam, prev_cam, seed, registry, settings, just_updated,
                   last_render_distance, last_cam_pos, next_entity, next_handle,
                   inbox, phase, trace, budgets>>

(***************************************************************************)
(* update_chunk_lod                                                        *)
(***************************************************************************)
\* The query of update_chunk_lod: Chunk entities Without<ChunkTask>.
LodQuery == {e \in Entities : ~HasTask(e)}

\* The rescan condition of update_chunk_lod.
LodNeedsRescan(c, last_pos, updated) == last_pos # <<c>> \/ updated

DesiredLod(e, c) ==
    get_lod_subdivisions(DistSq(Coord(e), c), lod_quality_multiplier,
                         lod_distance_multiplier)

\* lod_to_update after the rescan: the chunks of the query whose desired LOD
\* differs from their current one, nearest first.
LodCandidates(c) ==
    LET q == SetToSeq({e \in LodQuery : DesiredLod(e, c) # ent[e].current_lod})
    IN  Items(StableSort([i \in 1..Len(q) |-> <<q[i], DistSq(Coord(q[i]), c)>>]))

\* chunks.get_mut(entity) succeeds
LodQueryHas(e) == e \in LodQuery

\* The drain loop of update_chunk_lod: out lists the rebuilds it launches
\* (a chunk whose current_lod was set by this loop is in out).
RECURSIVE DrainLod(_, _, _, _)
DrainLod(queue, out, c, max) ==
    IF ~BudgetLeft(Len(out), max) \/ queue = <<>> THEN [queue |-> queue, out |-> out]
    ELSE LET e == Head(queue)
             launched == \E i \in 1..Len(out) : out[i].e = e
         IN  IF LodQueryHas(e) /\ ~launched /\ DesiredLod(e, c) # ent[e].current_lod
             THEN DrainLod(Tail(queue),
                           Append(out, [e |-> e, lod |-> DesiredLod(e, c)]), c, max)
             ELSE DrainLod(Tail(queue), out, c, max)

update_chunk_lod ==
    /\ phase = "update" /\ "update_chunk_lod" \in todo
    /\ LET c == CamChunk
           rescan == LodNeedsRescan(c, last_cam_pos, just_updated)
           scanned == IF rescan THEN LodCandidates(c) ELSE lod_to_update
           d == DrainLod(scanned, <<>>, c, max_chunks_per_frame)
           n == Len(d.out)
           idx(e) == CHOOSE i \in 1..n : d.out[i].e = e
       IN  /\ last_cam_pos' = IF rescan THEN <<c>> ELSE last_cam_pos
           /\ lod_to_update' = d.queue
           /\ meshes' = [h \in DOMAIN meshes \cup {LodHandle(next_handle + i - 1) : i \in 1..n} |->
                            IF h \in DOMAIN meshes THEN meshes[h]
                            ELSE [sub |-> d.out[(h - 1) \div 2 - next_handle + 1].lod,
                                  gen |-> 0, at |-> <<>>]]
           /\ next_handle' = next_handle + n
           /\ cmds' = [cmds EXCEPT !["update_chunk_lod"] = [i \in 1..n |->
                         [op |-> "insert_task", e |-> d.out[i].e,
                          arg |-> [new_handle |-> <<LodHandle(next_handle + i - 1)>>,
                                   done |-> FALSE,
                                   mesh |-> [sub |-> d.out[i].lod, gen |-> seed,
                                             at |-> transform_clone(d.out[i].e)]]]]]
           /\ ent' = [e \in Entities |->
                        IF \E i \in 1..n : d.out[i].e = e
                        THEN [ent[e] EXCEPT !.current_lod = d.out[idx(e)].lod]
                        ELSE ent[e]]
           /\ trace' = [trace EXCEPT !.l_rescan = rescan,
                                     !.order = FirstOf("update_chunk_lod")]
    /\ todo' = todo \ {"update_chunk_lod"}
    /\ UNCHANGED <<terrain, client, server, cam, prev_cam, seed, spawned_chunks, last_camera_chunk, to_spawn,
                   settings, just_updated, last_render_distance, next_entity, inbox,
                   phase, budgets>>

(***************************************************************************)
(* despawn_out_of_bounds_chunks (PostUpdate)                               *)
(***************************************************************************)
\* Variant: no margin of one chunk.
OutOfBoundsNoMargin(p, c, rd) == DistSq(p, c) > rd * rd

\* distance_sq > despawn_distance_sq, with despawn_distance = render_distance + 1
OutOfBounds(p, c, rd) == DistSq(p, c) > (rd + 1) * (rd + 1)

\* chunks_to_despawn after the sort: farthest first.
ChunksToDespawn(c, rd) ==
    LET q == SetToSeq({e \in Entities : OutOfBounds(Coord(e), c, rd)})
    IN  Items(StableSort([i \in 1..Len(q) |-> <<q[i], 0 - DistSq(Coord(q[i]), c)>>]))

\* .take(settings.max_chunks_per_frame * 2)
DespawnTakeNone(list, max) == <<>>
DespawnTakeAll(list, max) == list
DespawnTake(list, max) == SubSeq(list, 1, IF Len(list) < 2 * max THEN Len(list) ELSE 2 * max)

\* Variant: the registry keeps the coordinates of the despawned chunks.
DespawnedCoordsKept(gone) == {}

\* The coordinates the pass removes from spawned_chunks.
DespawnedCoords(gone) == {Coord(e) : e \in Range(gone)}

despawn_out_of_bounds_chunks ==
    /\ phase = "post" /\ "despawn_out_of_bounds_chunks" \in todo
    /\ LET c == CamChunk
           gone == DespawnTake(ChunksToDespawn(c, render_distance), max_chunks_per_frame)
       IN  /\ cmds' = [cmds EXCEPT !["despawn_out_of_bounds_chunks"] =
                         [i \in 1..Len(gone) |-> [op |-> "despawn", e |-> gone[i], arg |-> 0]]]
           /\ spawned_chunks' = spawned_chunks \ DespawnedCoords(gone)
           /\ trace' = [trace EXCEPT !.d_cam = <<cam, prev_cam>>,
                                     !.d_moved = trace.moved,
                                     !.d_rd = <<render_distance>>]
    /\ todo' = todo \ {"despawn_out_of_bounds_chunks"}
    /\ UNCHANGED <<terrain, client, server, cam, prev_cam, seed, last_camera_chunk, to_spawn, lod_to_update,
                   settings, just_updated, last_render_distance, last_cam_pos, ent,
                   meshes, next_entity, next_handle, inbox, phase, budgets>>

(***************************************************************************)
(* receive_server_messages: every Welcome replaces the generator and       *)
(* resets the registry.                                                    *)
(***************************************************************************)
\* The resource connect_to_server returns and process_connection_results
\* inserts: connected, no world seed received yet, original_seed 0, nothing
\* on the disconnect channel.  player_id, set together with world_seed, and
\* the message channels are left out.
ConnectedClient ==
    <<[connected |-> TRUE, world_seed |-> <<>>, original_seed |-> 0, disconnect_rx |-> 0]>>

\* let Some(mut client) = client else { return }; if !client.connected { return; }
Connected == client # <<>> /\ client[1].connected

\* GameServer::new(): the seed is drawn at random; no player, no sender, ids
\* from 1.  tasks and channels are the handle_client tasks spawned so far and
\* the messages placed on the channel of each, by player id; time_of_day and
\* speed are left out.
GameServer_new ==
    [seed |-> CHOOSE s \in ServerSeeds : TRUE, players |-> <<>>, senders |-> {},
     next_player_id |-> 1, tasks |-> <<>>, channels |-> <<>>]

\* Variant: the handler despawns nothing.
ResetQueryNone == {}

\* The chunks the Welcome handler despawns: the query (Entity, &Chunk, ..).
ResetQuery == Entities

receive_server_messages ==
    /\ phase = "update" /\ "receive_server_messages" \in todo
    /\ IF inbox = <<>> \/ ~ Connected
       THEN UNCHANGED <<seed, registry, just_updated, cmds, client, inbox>>
       ELSE LET q == SetToSeq(ResetQuery)
            IN  /\ seed' = inbox[Len(inbox)]
                /\ client' = <<[client[1] EXCEPT !.world_seed = <<inbox[Len(inbox)]>>]>>
                /\ spawned_chunks' = spawned_chunks \ {Coord(e) : e \in ResetQuery}
                /\ cmds' = [cmds EXCEPT !["receive_server_messages"] =
                              Flatten([k \in 1..Len(inbox) |->
                                [i \in 1..Len(q) |-> [op |-> "despawn", e |-> q[i], arg |-> 0]]])]
                /\ last_camera_chunk' = <<>>
                /\ to_spawn' = <<>>
                /\ lod_to_update' = <<>>
                /\ just_updated' = TRUE
                /\ inbox' = <<>>
    /\ todo' = todo \ {"receive_server_messages"}
    /\ UNCHANGED <<terrain, server, cam, prev_cam, settings, last_render_distance, last_cam_pos,
                   ent, meshes, next_entity, next_handle, phase, trace, budgets>>

(***************************************************************************)
(* The viewpoint: camera_controls (Update, free flight) and                *)
(* camera_follow_aircraft (PostUpdate) move the MainCamera.                *)
(***************************************************************************)
MoveCamera(system) ==
    /\ system \in todo
    /\ \E p \in CamPositions \ {cam} :
          /\ cam' = p
          /\ prev_cam' = cam
    /\ moves_left' = moves_left - 1
    /\ todo' = todo \ {system}
    /\ trace' = [trace EXCEPT !.moved = TRUE]
    /\ UNCHANGED <<terrain, client, server, seed, registry, settings, just_updated, last_render_distance,
                   last_cam_pos, ent, meshes, next_entity, next_handle, cmds, inbox,
                   phase, resets_left, settings_left, frames_left>>

camera_controls == phase = "update" /\ MoveCamera("camera_controls")

camera_follow_aircraft == phase = "post" /\ MoveCamera("camera_follow_aircraft")

(***************************************************************************)
(* Deferred commands.  Every system has its own command queue; the queues  *)
(* are applied when the schedule ends, one system after the other, in an   *)
(* order the schedule does not fix.  Two queues whose commands name        *)
(* different entities commute, and so does a despawn with any command on   *)
(* the same entity (the entity is gone and its handles are dropped either  *)
(* way); the queues of modify_plane and update_chunk_lod both insert a     *)
(* ChunkTask and do not commute, so both of their orders are applied.      *)
(* w is the world: [ent, meshes].  A mesh leaves the store when its last   *)
(* handle is dropped.                                                      *)
(***************************************************************************)
Without(f, k) == [x \in DOMAIN f \ {k} |-> f[x]]

\* The mesh handles a ChunkTask component owns.
TaskHandles(task) ==
    IF task = <<>> \/ task[1].new_handle = <<>> THEN {} ELSE {task[1].new_handle[1]}

DropHandles(store, hs) == [h \in DOMAIN store \ hs |-> store[h]]

\* Variant: spawned visible.
SpawnedChunkVisible(arg) ==
    [x |-> arg.x, z |-> arg.z, current_lod |-> arg.lod, vis |-> TRUE,
     mesh |-> arg.mesh, task |-> <<>>, added |-> TRUE]

\* The components of the entity generate_chunks spawns: Mesh3d, Chunk
\* { x, z, current_lod }, Visibility::Hidden; no ChunkTask; Chunk is Added.
SpawnedChunk(arg) ==
    [x |-> arg.x, z |-> arg.z, current_lod |-> arg.lod, vis |-> FALSE,
     mesh |-> arg.mesh, task |-> <<>>, added |-> TRUE]

ApplyCommand(w, c) ==
    LET live == c.e \in DOMAIN w.ent
    IN  CASE c.op = "spawn" ->
                [w EXCEPT !.ent = [e \in DOMAIN w.ent \cup {c.e} |->
                    IF e = c.e THEN SpawnedChunk(c.arg) ELSE w.ent[e]]]
          [] c.op = "insert_task" ->
                IF live
                THEN [ent |-> [w.ent EXCEPT ![c.e].task = <<c.arg>>],
                      meshes |-> DropHandles(w.meshes, TaskHandles(w.ent[c.e].task))]
                ELSE [w EXCEPT !.meshes = DropHandles(w.meshes, TaskHandles(<<c.arg>>))]
          [] c.op = "set_mesh" ->
                IF live
                THEN [ent |-> [w.ent EXCEPT ![c.e].mesh = c.arg],
                      meshes |-> DropHandles(w.meshes, {w.ent[c.e].mesh})]
                ELSE [w EXCEPT !.meshes = DropHandles(w.meshes, {c.arg})]
          [] c.op = "remove_task" ->
                IF live
                THEN [ent |-> [w.ent EXCEPT ![c.e].task = <<>>],
                      meshes |-> DropHandles(w.meshes, TaskHandles(w.ent[c.e].task))]
                ELSE w
          [] c.op = "set_visible" ->
                IF live THEN [w EXCEPT !.ent[c.e].vis = TRUE] ELSE w
          [] c.op = "despawn" ->
                IF live
                THEN [ent |-> Without(w.ent, c.e),
                      meshes |-> DropHandles(w.meshes,
                                    {w.ent[c.e].mesh} \cup TaskHandles(w.ent[c.e].task))]
                ELSE w

RECURSIVE ApplyCommands(_, _)
ApplyCommands(w, cs) ==
    IF cs = <<>> THEN w ELSE ApplyCommands(ApplyCommand(w, Head(cs)), Tail(cs))

Systems == UpdateSystems \cup PostUpdateSystems
NoCommands ==
    [s \in (Systems \cup {"check_connection_status"})
              \ {"camera_controls", "camera_follow_aircraft"} |-> <<>>]

\* The orders in which the queues are applied.
FlushOrders ==
    {<<"generate_chunks", "modify_plane", "update_chunk_lod", "handle_compute_tasks",
       "receive_server_messages", "check_connection_status",
       "despawn_out_of_bounds_chunks">>,
     <<"generate_chunks", "update_chunk_lod", "modify_plane", "handle_compute_tasks",
       "receive_server_messages", "check_connection_status",
       "despawn_out_of_bounds_chunks">>}

Flush ==
    \E o \in FlushOrders :
       LET w == ApplyCommands([ent |-> ent, meshes |-> meshes],
                              Flatten([i \in DOMAIN o |-> cmds[o[i]]]))
       IN  /\ ent' = w.ent
           /\ meshes' = w.meshes
           /\ cmds' = NoCommands

(***************************************************************************)
(* The frame: Update, its command flush, PostUpdate, its command flush.    *)
(* The systems of a schedule are not ordered among each other.  A system   *)
(* whose run cannot change anything in this frame (its query is empty and  *)
(* stays empty until the flush, no message is waiting, the viewpoint does  *)
(* not move) is left out of todo: when it runs makes no difference.        *)
(***************************************************************************)
HasWork(system) ==
    CASE system = "modify_plane" -> AddedChunks # {}
      [] system = "handle_compute_tasks" -> TaskQuery # {}
      [] system = "receive_server_messages" -> inbox # <<>>
      [] system \in {"camera_controls", "camera_follow_aircraft"} -> FALSE
      [] OTHER -> TRUE

\* The camera systems that move the viewpoint in this schedule.
Moving(systems) == IF moves_left > 0 THEN SUBSET systems ELSE {{}}

\* camera_follow_aircraft returns at once in FreeFlight mode, the only mode
\* in which camera_controls moves the camera, and the mode changes only at
\* the start of camera_controls: in a frame in which camera_controls moved
\* the camera, camera_follow_aircraft does not.
FollowMoving == IF trace.moved THEN {{}} ELSE Moving({"camera_follow_aircraft"})

BeginFrame ==
    /\ phase = "idle" /\ frames_left > 0
    /\ frames_left' = frames_left - 1
    /\ phase' = "update"
    /\ \E m \in Moving({"camera_controls"}) :
          todo' = {s \in UpdateSystems : HasWork(s)} \cup m
    /\ trace' = [NoTrace EXCEPT !.updated = just_updated, !.order = trace.order]
    /\ UNCHANGED <<terrain, client, server, cam, prev_cam, seed, registry, settings, just_updated,
                   last_render_distance, last_cam_pos, ent, meshes, next_entity,
                   next_handle, cmds, inbox, moves_left, resets_left, settings_left>>

EndUpdate ==
    /\ phase = "update" /\ todo = {}
    /\ Flush
    /\ phase' = "post"
    /\ \E m \in FollowMoving :
          todo' = {s \in PostUpdateSystems : HasWork(s)} \cup m
    /\ UNCHANGED <<terrain, client, server, cam, prev_cam, seed, registry, settings, just_updated,
                   last_render_distance, last_cam_pos, next_entity, next_handle, inbox,
                   trace, budgets>>

EndFrame ==
    /\ phase = "post" /\ todo = {}
    /\ Flush
    /\ phase' = "idle"
    /\ UNCHANGED <<terrain, client, server, cam, prev_cam, seed, registry, settings, just_updated,
                   last_render_distance, last_cam_pos, next_entity, next_handle, inbox,
                   todo, trace, budgets>>

(***************************************************************************)
(* debugger_ui: the sliders of ui_render_settings.  The egui pass runs in   *)
(* PostUpdate, not ordered with the other systems of that schedule.        *)
(***************************************************************************)
debugger_ui ==
    /\ phase = "post" /\ settings_left > 0
    /\ settings_left' = settings_left - 1
    /\ \/ /\ \E rd \in RenderDistances \ {render_distance} : render_distance' = rd
          /\ just_updated' = TRUE
          /\ UNCHANGED <<lod_quality_multiplier, lod_distance_multiplier,
                         max_chunks_per_frame>>
       \/ /\ \E m \in ChunkBudgets \ {max_chunks_per_frame} : max_chunks_per_frame' = m
          /\ UNCHANGED <<render_distance, lod_quality_multiplier,
                         lod_distance_multiplier, just_updated>>
       \/ /\ \E q \in QualityMultipliers \ {lod_quality_multiplier} :
                lod_quality_multiplier' = q
          /\ just_updated' = TRUE
          /\ UNCHANGED <<render_distance, lod_distance_multiplier, max_chunks_per_frame>>
       \/ /\ \E m \in DistanceMultipliers \ {lod_distance_multiplier} :
                lod_distance_multiplier' = m
          /\ just_updated' = TRUE
          /\ UNCHANGED <<render_distance, lod_quality_multiplier, max_chunks_per_frame>>
       \/ /\ just_updated' = TRUE
          /\ UNCHANGED settings
    /\ UNCHANGED <<terrain, client, server, cam, prev_cam, seed, registry, last_render_distance, last_cam_pos,
                   ent, meshes, next_entity, next_handle, cmds, inbox, phase, todo,
                   trace, moves_left, resets_left, frames_left>>

\* The read task of the connection hands a Welcome to the channel that
\* receive_server_messages drains.
ServerWelcome ==
    /\ phase = "idle" /\ resets_left > 0
    /\ resets_left' = resets_left - 1
    /\ \E s \in ServerSeeds : inbox' = Append(inbox, s)
    /\ UNCHANGED <<terrain, client, server, cam, prev_cam, seed, registry, settings, just_updated,
                   last_render_distance, last_cam_pos, ent, meshes, next_entity,
                   next_handle, cmds, phase, todo, trace, moves_left, settings_left,
                   frames_left>>

(***************************************************************************)
(* The state after App construction and setup.                             *)
(***************************************************************************)
\* No generator is under test.
NoTerrain == <<>>

InitWorld ==
    /\ cam = <<0, 0>>
    /\ client = ConnectedClient
    /\ server = GameServer_new
    /\ prev_cam = <<0, 0>>
    /\ seed = LocalSeed
    /\ spawned_chunks = {}
    /\ last_camera_chunk = <<>>
    /\ to_spawn = <<>>
    /\ lod_to_update = <<>>
    /\ just_updated = FALSE
    /\ last_render_distance = <<>>
    /\ last_cam_pos = <<>>
    /\ ent = <<>>
    /\ meshes = <<>>
    /\ next_entity = 1
    /\ next_handle = 1
    /\ cmds = NoCommands
    /\ inbox = <<>>
    /\ phase = "idle"
    /\ todo = {}

Init ==
    /\ InitWorld
    /\ terrain = NoTerrain
    /\ trace = NoTrace
    /\ render_distance = 1
    /\ lod_quality_multiplier = 1
    /\ lod_distance_multiplier = 1
    /\ max_chunks_per_frame = MaxChunksPerFrame
    /\ moves_left = MaxMoves
    /\ resets_left = MaxResets
    /\ settings_left = MaxSettingsChanges
    /\ frames_left = MaxFrames

Next ==
    \/ BeginFrame
    \/ camera_controls
    \/ generate_chunks
    \/ modify_plane
    \/ handle_compute_tasks
    \/ update_chunk_lod
    \/ receive_server_messages
    \/ EndUpdate
    \/ despawn_out_of_bounds_chunks
    \/ camera_follow_aircraft
    \/ EndFrame
    \/ debugger_ui
    \/ ServerWelcome

Spec == Init /\ [][Next]_vars

(***************************************************************************)
(* The first tick of a world that starts at the origin with an empty       *)
(* registry, for each render distance up to ScenarioRenderDistance, each   *)
(* budget (the default one included) and each LOD multiplier.  No chunk    *)
(* entity exists before the flush of this tick, so modify_plane and        *)
(* handle_compute_tasks have nothing to do in it.                          *)
(***************************************************************************)
ScenarioRenderDistance == 3
DefaultMaxChunksPerFrame == 100

InitScenario ==
    /\ InitWorld
    /\ terrain = NoTerrain
    /\ trace = NoTrace
    /\ render_distance \in 1..ScenarioRenderDistance
    /\ max_chunks_per_frame \in ChunkBudgets \cup {DefaultMaxChunksPerFrame}
    /\ lod_quality_multiplier \in QualityMultipliers
    /\ lod_distance_multiplier \in DistanceMultipliers
    /\ moves_left = 0
    /\ resets_left = 0
    /\ settings_left = 0
    /\ frames_left = 1

NextScenario ==
    \/ BeginFrame
    \/ generate_chunks
    \/ update_chunk_lod
    \/ EndUpdate
    \/ despawn_out_of_bounds_chunks
    \/ EndFrame

SpecScenario == InitScenario /\ [][NextScenario]_vars

(***************************************************************************)
(* A world that has been running undisturbed: every chunk within the       *)
(* render distance of the origin is spawned, built and visible, no build   *)
(* is pending and the last frame had nothing to do.  Spec reaches this     *)
(* state after enough frames without input; SpecBuilt starts from it, so   *)
(* that the frames of its budget are spent on movements, setting changes   *)
(* and resets of a complete world.                                         *)
(***************************************************************************)
BuiltOrder == RescanQueue(<<0, 0>>, 1, {})
BuiltLod(p) == get_lod_subdivisions(DistSq(p, <<0, 0>>), 1, 1)

BuiltWorld ==
    /\ cam = <<0, 0>>
    /\ client = ConnectedClient
    /\ server = GameServer_new
    /\ prev_cam = <<0, 0>>
    /\ seed = LocalSeed
    /\ render_distance = 1
    /\ lod_quality_multiplier = 1
    /\ lod_distance_multiplier = 1
    /\ max_chunks_per_frame = MaxChunksPerFrame
    /\ spawned_chunks = Range(BuiltOrder)
    /\ last_camera_chunk = << <<0, 0>> >>
    /\ to_spawn = <<>>
    /\ lod_to_update = <<>>
    /\ just_updated = FALSE
    /\ last_render_distance = <<1>>
    /\ last_cam_pos = << <<0, 0>> >>
    /\ ent = [e \in 1..Len(BuiltOrder) |->
                [x |-> BuiltOrder[e][1], z |-> BuiltOrder[e][2],
                 current_lod |-> BuiltLod(BuiltOrder[e]), vis |-> TRUE,
                 mesh |-> SpawnHandle(e), task |-> <<>>, added |-> FALSE]]
    /\ meshes = [h \in {SpawnHandle(e) : e \in 1..Len(BuiltOrder)} |->
                   [sub |-> BuiltLod(BuiltOrder[h \div 2]), gen |-> LocalSeed,
                    at |-> BuiltOrder[h \div 2]]]
    /\ next_entity = Len(BuiltOrder) + 1
    /\ next_handle = 1
    /\ cmds = NoCommands
    /\ inbox = <<>>
    /\ phase = "idle"
    /\ todo = {}
    /\ trace = [NoTrace EXCEPT !.d_cam = << <<0, 0>>, <<0, 0>> >>, !.d_rd = <<1>>]

InitBuilt ==
    /\ BuiltWorld
    /\ terrain = NoTerrain
    /\ moves_left = MaxMoves
    /\ resets_left = MaxResets
    /\ settings_left = MaxSettingsChanges
    /\ frames_left = MaxFrames

SpecBuilt == InitBuilt /\ [][Next]_vars

\* A world that was built around the origin at the largest render distance
\* and has come to rest; lowering the render distance and moving away then
\* leaves more chunks out of bounds than one despawn pass may take.
WideOrder == RescanQueue(<<0, 0>>, MaxRenderDistance, {})
WideLod(p) == get_lod_subdivisions(DistSq(p, <<0, 0>>), 1, 1)

WideWorld ==
    /\ cam = <<0, 0>>
    /\ client = ConnectedClient
    /\ server = GameServer_new
    /\ prev_cam = <<0, 0>>
    /\ seed = LocalSeed
    /\ render_distance = MaxRenderDistance
    /\ lod_quality_multiplier = 1
    /\ lod_distance_multiplier = 1
    /\ max_chunks_per_frame \in ChunkBudgets
    /\ spawned_chunks = Range(WideOrder)
    /\ last_camera_chunk = << <<0, 0>> >>
    /\ to_spawn = <<>>
    /\ lod_to_update = <<>>
    /\ just_updated = FALSE
    /\ last_render_distance = <<MaxRenderDistance>>
    /\ last_cam_pos = << <<0, 0>> >>
    /\ ent = [e \in 1..Len(WideOrder) |->
                [x |-> WideOrder[e][1], z |-> WideOrder[e][2],
                 current_lod |-> WideLod(WideOrder[e]), vis |-> TRUE,
                 mesh |-> SpawnHandle(e), task |-> <<>>, added |-> FALSE]]
    /\ meshes = [h \in {SpawnHandle(e) : e \in 1..Len(WideOrder)} |->
                   [sub |-> WideLod(WideOrder[h \div 2]), gen |-> LocalSeed,
                    at |-> WideOrder[h \div 2]]]
    /\ next_entity = Len(WideOrder) + 1
    /\ next_handle = 1
    /\ cmds = NoCommands
    /\ inbox = <<>>
    /\ phase = "idle"
    /\ todo = {}
    /\ trace = [NoTrace EXCEPT !.d_cam = << <<0, 0>>, <<0, 0>> >>,
                               !.d_rd = <<MaxRenderDistance>>]

InitWide ==
    /\ WideWorld
    /\ terrain = NoTerrain
    /\ moves_left = MaxMoves
    /\ resets_left = 0
    /\ settings_left = MaxSettingsChanges
    /\ frames_left = MaxFrames

\* A session in which no server sends a Welcome, so that
\* receive_server_messages finds its channel empty every tick.
NextWide ==
    \/ BeginFrame
    \/ camera_controls
    \/ generate_chunks
    \/ modify_plane
    \/ handle_compute_tasks
    \/ update_chunk_lod
    \/ EndUpdate
    \/ despawn_out_of_bounds_chunks
    \/ camera_follow_aircraft
    \/ EndFrame
    \/ debugger_ui

SpecWide == InitWide /\ [][NextWide]_vars

\* A world at rest whose camera moves twice, as when it crosses a chunk
\* boundary and comes back.
InitJitter ==
    /\ BuiltWorld
    /\ terrain = NoTerrain
    /\ moves_left = MaxJitterMoves
    /\ resets_left = 0
    /\ settings_left = MaxSettingsChanges
    /\ frames_left = MaxJitterFrames

SpecJitter == InitJitter /\ [][NextWide]_vars

(***************************************************************************)
(* The terrain generator.  Numbers are f32 in the program and hundredths   *)
(* here (0.08 is 8, 1.0 is 100); positions are whole world units.  Every   *)
(* product and quotient is rounded once, towards minus infinity, where the *)
(* program rounds once to the nearest f32.  The Perlin noise of the noise  *)
(* crate is a fixed function of its seed and its point: Perlin_get stands  *)
(* for it with a hash that takes values from -1.00 to 1.00.  The constants *)
(* of world_generation.rs that consts.rs does not define are drawn from    *)
(* TerrainConsts.                                                          *)
(***************************************************************************)
CHUNK_SIZE == 1000
MAP_HEIGHT_SCALE == 230

Mul(a, b) == (a * b) \div 100
Div(a, b) == (a * 100) \div b
Max(a, b) == IF a >= b THEN a ELSE b
\* Variant: only the lower end is clamped.
clampLower(v, lo, hi) == IF v < lo THEN lo ELSE v

clamp(v, lo, hi) == IF v < lo THEN lo ELSE IF v > hi THEN hi ELSE v
sqrt(v) == CHOOSE r \in 0..317 : r * r <= v /\ v < (r + 1) * (r + 1)

TerrainConsts ==
    {[TERRAIN_HORIZONTAL_SCALE |-> 100, OCEAN_HUMIDITY_THRESHOLD |-> 60,
      OCEAN_HUMIDITY_OFFSET |-> 5,
      OCEAN_TRANSITION_WIDTH |-> 10, OCEAN_HOT_TEMP_THRESHOLD |-> 85,
      OCEAN_COLD_TEMP_THRESHOLD |-> 15],
     [TERRAIN_HORIZONTAL_SCALE |-> 250, OCEAN_HUMIDITY_THRESHOLD |-> 45,
      OCEAN_HUMIDITY_OFFSET |-> 10,
      OCEAN_TRANSITION_WIDTH |-> 5, OCEAN_HOT_TEMP_THRESHOLD |-> 90,
      OCEAN_COLD_TEMP_THRESHOLD |-> 10]}

\* noise::Perlin::get of the generator seeded with perlin, at the point
\* (x, y) given in hundredths.
Perlin_get(perlin, x, y) == ((perlin * 7919 + x * 31 + y * 17) % 201) - 100

\* PerlinLayer::new; offset = (seed as f64 * 1337.42) % 100000.0.
PerlinLayer_new(layer_seed, horizontal_scale, vertical_scale) ==
    [perlin |-> layer_seed, horizontal_scale |-> horizontal_scale,
     vertical_scale |-> vertical_scale, offset |-> (layer_seed * 133742) % 10000000]

\* WorldGenerator::new.
WorldGenerator_new(gen_seed, k) ==
    [seed |-> gen_seed,
     terrain_layers |->
        << PerlinLayer_new(gen_seed, Mul(8, k.TERRAIN_HORIZONTAL_SCALE), 450),
           PerlinLayer_new(gen_seed, Mul(20, k.TERRAIN_HORIZONTAL_SCALE), 350),
           PerlinLayer_new(gen_seed + 100, Mul(50, k.TERRAIN_HORIZONTAL_SCALE), 175),
           PerlinLayer_new(gen_seed + 200, Mul(100, k.TERRAIN_HORIZONTAL_SCALE), 50),
           PerlinLayer_new(gen_seed + 300, Mul(200, k.TERRAIN_HORIZONTAL_SCALE), 40) >>,
     temperature_layer |-> PerlinLayer_new(gen_seed + 400, Mul(6, k.TERRAIN_HORIZONTAL_SCALE), 100),
     humidity_layer |-> PerlinLayer_new(gen_seed + 500, Mul(6, k.TERRAIN_HORIZONTAL_SCALE), 100)]

\* PerlinLayer::get_level; pos = <<x, y, z>>, of which y is not read.
get_level(layer, pos) ==
    LET height == Perlin_get(layer.perlin,
                      (pos[1] * layer.horizontal_scale) \div 1000 + layer.offset,
                      (pos[3] * layer.horizontal_scale) \div 1000
                          + (sqrt(layer.offset \div 100) * 100 + 20299400))
    IN  Mul(height, layer.vertical_scale)

\* WorldGenerator::get_climate after its two get_level calls:
\* <<temp_normalized, hum_normalized>>.
normalize_climate(world_gen, raw_temp, raw_hum) ==
    << clamp((Div(raw_temp, world_gen.temperature_layer.vertical_scale) + 100) \div 2, 0, 100),
       clamp((Div(raw_hum, world_gen.humidity_layer.vertical_scale) + 100) \div 2, 0, 100) >>

\* WorldGenerator::get_climate.
get_climate(world_gen, pos) ==
    normalize_climate(world_gen, get_level(world_gen.temperature_layer, pos),
                      get_level(world_gen.humidity_layer, pos))

\* Variant: the cold extreme is not an ocean.
classify_biomeNoCold(world_gen, raw_temp, raw_hum, k) ==
    LET temp_normalized == (Div(raw_temp, world_gen.temperature_layer.vertical_scale) + 100) \div 2
        hum_normalized == (Div(raw_hum, world_gen.humidity_layer.vertical_scale) + 100) \div 2
    IN  IF \/ hum_normalized > k.OCEAN_HUMIDITY_THRESHOLD + k.OCEAN_HUMIDITY_OFFSET
           \/ temp_normalized > k.OCEAN_HOT_TEMP_THRESHOLD
        THEN "Ocean"
        ELSE IF temp_normalized > 50
             THEN IF hum_normalized > 45 THEN "Forest" ELSE "Desert"
             ELSE IF hum_normalized < 45 THEN "Grasslands" ELSE "Taiga"

\* WorldGenerator::get_biome after its two get_level calls.
classify_biome(world_gen, raw_temp, raw_hum, k) ==
    LET temp_normalized == (Div(raw_temp, world_gen.temperature_layer.vertical_scale) + 100) \div 2
        hum_normalized == (Div(raw_hum, world_gen.humidity_layer.vertical_scale) + 100) \div 2
    IN  IF \/ hum_normalized > k.OCEAN_HUMIDITY_THRESHOLD + k.OCEAN_HUMIDITY_OFFSET
           \/ temp_normalized > k.OCEAN_HOT_TEMP_THRESHOLD
           \/ temp_normalized < k.OCEAN_COLD_TEMP_THRESHOLD
        THEN "Ocean"
        ELSE IF temp_normalized > 50
             THEN IF hum_normalized > 45 THEN "Forest" ELSE "Desert"
             ELSE IF hum_normalized < 45 THEN "Grasslands" ELSE "Taiga"

\* WorldGenerator::get_biome.
get_biome(world_gen, pos, k) ==
    classify_biome(world_gen, get_level(world_gen.temperature_layer, pos),
                   get_level(world_gen.humidity_layer, pos), k)

\* The blend towards the ocean that both biome functions compute.
ocean_factor(temp, humidity, k) ==
    LET hum_blend == IF humidity > k.OCEAN_HUMIDITY_THRESHOLD
                     THEN clamp(Div(humidity - k.OCEAN_HUMIDITY_THRESHOLD,
                                    k.OCEAN_TRANSITION_WIDTH), 0, 100)
                     ELSE 0
        hot_blend == IF temp > k.OCEAN_HOT_TEMP_THRESHOLD - k.OCEAN_TRANSITION_WIDTH
                     THEN clamp(Div(temp - (k.OCEAN_HOT_TEMP_THRESHOLD - k.OCEAN_TRANSITION_WIDTH),
                                    k.OCEAN_TRANSITION_WIDTH), 0, 100)
                     ELSE 0
        cold_blend == IF temp < k.OCEAN_COLD_TEMP_THRESHOLD + k.OCEAN_TRANSITION_WIDTH
                      THEN clamp(Div(k.OCEAN_COLD_TEMP_THRESHOLD + k.OCEAN_TRANSITION_WIDTH - temp,
                                     k.OCEAN_TRANSITION_WIDTH), 0, 100)
                      ELSE 0
    IN  Max(Max(hum_blend, hot_blend), cold_blend)

get_biome_elevation_offset(temp, humidity, k) ==
    LET desert_elev == 0
        grass_elev == 4
        forest_elev == 50
        taiga_elev == 800
        ocean_elev == -250
        cold_blend == grass_elev + Mul(taiga_elev - grass_elev, humidity)
        hot_blend == desert_elev + Mul(forest_elev - desert_elev, humidity)
        land_elev == cold_blend + Mul(hot_blend - cold_blend, temp)
    IN  land_elev + Mul(ocean_elev - land_elev, ocean_factor(temp, humidity, k))

get_biome_height_multiplier(temp, humidity, k) ==
    LET desert_mult == 1
        grass_mult == 2
        forest_mult == 5
        taiga_mult == 150
        ocean_mult == 1
        cold_blend == grass_mult + Mul(taiga_mult - grass_mult, humidity)
        hot_blend == desert_mult + Mul(forest_mult - desert_mult, humidity)
        land_mult == cold_blend + Mul(hot_blend - cold_blend, temp)
    IN  land_mult + Mul(ocean_mult - land_mult, ocean_factor(temp, humidity, k))

\* for layer in &terrain_layers { base_height += layer.get_level(pos) },
\* from layer i on.
RECURSIVE base_height(_, _, _, _)
base_height(layers, pos, i, acc) ==
    IF i > Len(layers) THEN acc
    ELSE base_height(layers, pos, i + 1, acc + get_level(layers[i], pos))

\* WorldGenerator::get_terrain_height, the query interface.
get_terrain_height(world_gen, pos, k) ==
    LET climate == get_climate(world_gen, pos)
        base == base_height(world_gen.terrain_layers, pos, 1, 0)
        height_multiplier == get_biome_height_multiplier(climate[1], climate[2], k)
        elevation_offset == get_biome_elevation_offset(climate[1], climate[2], k)
        final_height == Mul(base, height_multiplier) + elevation_offset
    IN  Mul(final_height, MAP_HEIGHT_SCALE)

\* Variant: the initial build leaves out the elevation offset of the biome.
modify_plane_taskNoOffset(world_gen, translation, pos, k) ==
    LET world_pos == << pos[1] + translation[1], pos[2] + translation[2],
                        pos[3] + translation[3] >>
        climate == get_climate(world_gen, world_pos)
        base == base_height(world_gen.terrain_layers, world_pos, 1, 0)
        height_multiplier == get_biome_height_multiplier(climate[1], climate[2], k)
        final_height == Mul(base, height_multiplier)
    IN  Mul(final_height, MAP_HEIGHT_SCALE)

\* The task of modify_plane for one vertex pos of the flat mesh, with the
\* clone of the generator and the copy of the Transform it captured: the
\* value it writes to pos[1].
modify_plane_task(world_gen, translation, pos, k) ==
    LET world_pos == << pos[1] + translation[1], pos[2] + translation[2],
                        pos[3] + translation[3] >>
        climate == get_climate(world_gen, world_pos)
        base == base_height(world_gen.terrain_layers, world_pos, 1, 0)
        height_multiplier == get_biome_height_multiplier(climate[1], climate[2], k)
        elevation_offset == get_biome_elevation_offset(climate[1], climate[2], k)
        final_height == Mul(base, height_multiplier) + elevation_offset
    IN  Mul(final_height, MAP_HEIGHT_SCALE)

\* The task of update_chunk_lod for one vertex of the new flat mesh.
update_chunk_lod_task(world_gen, translation, pos, k) ==
    LET world_pos == << pos[1] + translation[1], pos[2] + translation[2],
                        pos[3] + translation[3] >>
        climate == get_climate(world_gen, world_pos)
        base == base_height(world_gen.terrain_layers, world_pos, 1, 0)
        height_multiplier == get_biome_height_multiplier(climate[1], climate[2], k)
        elevation_offset == get_biome_elevation_offset(climate[1], climate[2], k)
        final_height == Mul(base, height_multiplier) + elevation_offset
    IN  Mul(final_height, MAP_HEIGHT_SCALE)

\* The chunks whose meshes are built, the vertices of a flat chunk mesh
\* (corners, edge centres, centre, and the quarter points of a finer mesh),
\* and the altitudes of the callers of the query interface.
TerrainChunks == {<<0, 0>>, <<1, 0>>, <<0, -1>>}
PlaneVertices == {<<x, 0, z>> : x \in {-500, 0, 250, 500}, z \in {-500, 0, 500}}
Altitudes == {0, 300}
Translation(c) == <<c[1] * CHUNK_SIZE, 0, c[2] * CHUNK_SIZE>>
WorldPositions ==
    {<<v[1] + Translation(c)[1], v[3] + Translation(c)[3]>> :
        c \in TerrainChunks, v \in PlaneVertices}

\* The chunk and vertex pairs whose world position is terrain.pos.
VerticesAtPos ==
    {cv \in TerrainChunks \X PlaneVertices :
        /\ cv[2][1] + Translation(cv[1])[1] = terrain.pos[1]
        /\ cv[2][3] + Translation(cv[1])[3] = terrain.pos[2]}

\* A generator, the constants, and one world position; no height computed.
InitTerrain ==
    /\ InitWorld
    /\ trace = NoTrace
    /\ render_distance = 1
    /\ lod_quality_multiplier = 1
    /\ lod_distance_multiplier = 1
    /\ max_chunks_per_frame = MaxChunksPerFrame
    /\ moves_left = 0 /\ resets_left = 0 /\ settings_left = 0 /\ frames_left = 0
    /\ \E gen_seed \in {LocalSeed} \cup ServerSeeds, k \in TerrainConsts, p \in WorldPositions :
          terrain = [world_generator |-> WorldGenerator_new(gen_seed, k), consts |-> k,
                     pos |-> p, built |-> <<>>, rebuilt |-> <<>>, queried |-> <<>>]

\* The initial build of a chunk that has a vertex at the position.
BuildInitial ==
    /\ \E cv \in VerticesAtPos :
          terrain' = [terrain EXCEPT !.built =
              <<modify_plane_task(terrain.world_generator, Translation(cv[1]), cv[2],
                                  terrain.consts)>>]
    /\ UNCHANGED <<world, client, server>>

\* The LOD rebuild of a chunk that has a vertex at the position.
BuildLod ==
    /\ \E cv \in VerticesAtPos :
          terrain' = [terrain EXCEPT !.rebuilt =
              <<update_chunk_lod_task(terrain.world_generator, Translation(cv[1]), cv[2],
                                      terrain.consts)>>]
    /\ UNCHANGED <<world, client, server>>

\* A caller of the query interface above or on the position.
QueryHeight ==
    /\ \E y \in Altitudes :
          terrain' = [terrain EXCEPT !.queried =
              <<get_terrain_height(terrain.world_generator,
                                   <<terrain.pos[1], y, terrain.pos[2]>>, terrain.consts)>>]
    /\ UNCHANGED <<world, client, server>>

NextTerrain ==
    \/ BuildInitial
    \/ BuildLod
    \/ QueryHeight

SpecTerrain == InitTerrain /\ [][NextTerrain]_vars

\* The samples of the temperature and humidity layers that are tried: the
\* noise times the layer's vertical scale, also past the nominal -1.00..1.00.
RawNoise == {r \in (0 - MaxRawNoise)..MaxRawNoise : r % 5 = 0}

\* A generator, the constants and the two samples at some position; nothing
\* computed.
InitClimate ==
    /\ InitWorld
    /\ trace = NoTrace
    /\ render_distance = 1
    /\ lod_quality_multiplier = 1
    /\ lod_distance_multiplier = 1
    /\ max_chunks_per_frame = MaxChunksPerFrame
    /\ moves_left = 0 /\ resets_left = 0 /\ settings_left = 0 /\ frames_left = 0
    /\ \E k \in TerrainConsts, raw_temp \in RawNoise, raw_hum \in RawNoise :
          terrain = [world_generator |-> WorldGenerator_new(LocalSeed, k), consts |-> k,
                     raw_temp |-> raw_temp, raw_hum |-> raw_hum,
                     climate |-> <<>>, biome |-> <<>>]

\* get_climate at the position of the samples.
Climate ==
    /\ terrain.climate = <<>>
    /\ terrain' = [terrain EXCEPT !.climate =
          <<normalize_climate(terrain.world_generator, terrain.raw_temp, terrain.raw_hum)>>]
    /\ UNCHANGED <<world, client, server>>

\* get_biome at the position of the samples.
Biome ==
    /\ terrain.biome = <<>>
    /\ terrain' = [terrain EXCEPT !.biome =
          <<classify_biome(terrain.world_generator, terrain.raw_temp, terrain.raw_hum,
                           terrain.consts)>>]
    /\ UNCHANGED <<world, client, server>>

NextClimate ==
    \/ Climate
    \/ Biome

SpecClimate == InitClimate /\ [][NextClimate]_vars

(***************************************************************************)
(* The terrain palettes.  Heights are in hundredths, colour channels,      *)
(* smoothness and blend factors in thousandths.  A Color is a record of    *)
(* its colour space and its channels; Color::srgb builds an sRGB colour    *)
(* and to_linear converts it, for which the square stands in for the sRGB  *)
(* transfer function.                                                      *)
(***************************************************************************)
srgb(r, g, b) == [space |-> "srgb", rgb |-> <<r, g, b>>]
WHITE == srgb(1000, 1000, 1000)

to_linear(color) ==
    IF color.space = "linear" THEN color
    ELSE [space |-> "linear", rgb |-> [i \in 1..3 |-> (color.rgb[i] * color.rgb[i]) \div 1000]]

\* LinearRgba::mix: self * (1 - factor) + other * factor.
mix(base, other, factor) ==
    [space |-> "linear",
     rgb |-> [i \in 1..3 |-> (base.rgb[i] * (1000 - factor) + other.rgb[i] * factor) \div 1000]]

TerrainStop(height, color) == [height |-> height, color |-> color]

GRASSLANDS_TERRAIN_LEVELS ==
    << TerrainStop(-100, srgb(300, 200, 100)), TerrainStop(-50, srgb(800, 700, 500)),
       TerrainStop(20, srgb(200, 500, 200)), TerrainStop(250, srgb(500, 500, 500)) >>

DESERT_TERRAIN_LEVELS ==
    << TerrainStop(-100, srgb(600, 400, 200)), TerrainStop(-50, srgb(900, 800, 500)),
       TerrainStop(70, srgb(800, 600, 300)), TerrainStop(150, srgb(700, 400, 200)),
       TerrainStop(250, srgb(600, 300, 100)) >>

TAIGA_TERRAIN_LEVELS ==
    << TerrainStop(-100, srgb(200, 200, 200)), TerrainStop(-50, srgb(400, 400, 400)),
       TerrainStop(30, srgb(100, 300, 200)), TerrainStop(100, srgb(500, 500, 500)),
       TerrainStop(150, WHITE) >>

FOREST_TERRAIN_LEVELS ==
    << TerrainStop(-100, srgb(300, 200, 100)), TerrainStop(-50, srgb(200, 400, 100)),
       TerrainStop(30, srgb(100, 500, 100)), TerrainStop(200, srgb(400, 400, 400)),
       TerrainStop(300, WHITE) >>

Palettes == {GRASSLANDS_TERRAIN_LEVELS, DESERT_TERRAIN_LEVELS, TAIGA_TERRAIN_LEVELS,
             FOREST_TERRAIN_LEVELS}

\* Variant: a height that equals a threshold already belongs to the band
\* above it.
RECURSIVE upper_idxInclusive(_, _, _)
upper_idxInclusive(height, palette, i) ==
    IF i <= Len(palette) /\ height >= palette[i].height
    THEN upper_idxInclusive(height, palette, i + 1)
    ELSE i

\* while upper_idx < palette.len() && height > palette[upper_idx].height,
\* from index i on (indices from 1: the result is one more than the
\* program's upper_idx).
RECURSIVE upper_idx(_, _, _)
upper_idx(height, palette, i) ==
    IF i <= Len(palette) /\ height > palette[i].height
    THEN upper_idx(height, palette, i + 1)
    ELSE i

\* Variant: the blend runs over the whole band.
blend_tUnshifted(t, blend_start, smoothness) == t

\* (t - blend_start) / smoothness
blend_t(t, blend_start, smoothness) == ((t - blend_start) * 1000) \div smoothness

get_color_from_palette(height, palette, smoothness) ==
    LET idx == upper_idx(height, palette, 1)
    IN  IF idx = 1 THEN palette[1].color
        ELSE IF idx > Len(palette) THEN palette[Len(palette)].color
        ELSE LET lower == palette[idx - 1]
                 upper == palette[idx]
                 range == upper.height - lower.height
                 t == clamp(((height - lower.height) * 1000) \div range, 0, 1000)
                 blend_start == 1000 - clamp(smoothness, 0, 1000)
                 base_color == to_linear(lower.color)
                 next_color == to_linear(upper.color)
             IN  IF t > blend_start /\ smoothness > 0
                 THEN mix(base_color, next_color, blend_t(t, blend_start, smoothness))
                 ELSE base_color

\* The values of the Terrain Smoothness slider that are tried, and the
\* heights.
Smoothnesses == {0, 250, 500, 1000}
PaletteHeights == (0 - MaxPaletteHeight)..MaxPaletteHeight

\* A palette, a smoothness and a height; no colour computed.
InitPalette ==
    /\ InitWorld
    /\ trace = NoTrace
    /\ render_distance = 1
    /\ lod_quality_multiplier = 1
    /\ lod_distance_multiplier = 1
    /\ max_chunks_per_frame = MaxChunksPerFrame
    /\ moves_left = 0 /\ resets_left = 0 /\ settings_left = 0 /\ frames_left = 0
    /\ \E palette \in Palettes, smoothness \in Smoothnesses, height \in PaletteHeights :
          terrain = [palette |-> palette, smoothness |-> smoothness, height |-> height,
                     color |-> <<>>]

\* get_terrain_color asks the palette for the colour at the height.
PaletteColor ==
    /\ terrain.color = <<>>
    /\ terrain' = [terrain EXCEPT !.color =
          <<get_color_from_palette(terrain.height, terrain.palette, terrain.smoothness)>>]
    /\ UNCHANGED <<world, client, server>>

NextPalette == PaletteColor

SpecPalette == InitPalette /\ [][NextPalette]_vars

(***************************************************************************)
(* Properties.                                                             *)
(***************************************************************************)
World == [ent |-> ent, meshes |-> meshes]

\* The world after the build of e completed, was polled by
\* handle_compute_tasks and the commands of that run were applied.
CompleteBuild(w, e) ==
    ApplyCommands([ent |-> [w.ent EXCEPT ![e].task = <<PolledTask(ent[e].task[1])>>],
                   meshes |-> SwapMesh(w.meshes, e)],
                  SwapCommands(e))

RECURSIVE CompleteBuilds(_, _)
CompleteBuilds(w, order) ==
    IF order = <<>> THEN w
    ELSE CompleteBuilds(CompleteBuild(w, Head(order)), Tail(order))

\* The orders in which the builds of S can complete.
RECURSIVE Orders(_)
Orders(S) ==
    IF S = {} THEN {<<>>}
    ELSE UNION {{<<x>> \o o : o \in Orders(S \ {x})} : x \in S}

Ran(system) == phase # "idle" /\ system \notin todo
Despawning == cmds["despawn_out_of_bounds_chunks"]
Launches(queue, e) == Cardinality({i \in DOMAIN queue : queue[i].op = "insert_task" /\ queue[i].e = e})
IsSuffix(s, t) == Len(s) <= Len(t) /\ s = SubSeq(t, Len(t) - Len(s) + 1, Len(t))
Disk(c, rd) == {p \in ((c[1] - rd)..(c[1] + rd)) \X ((c[2] - rd)..(c[2] + rd)) :
                  DistSq(p, c) <= rd * rd}

\* C1: no chunk coordinate is spawned twice: at most one live Chunk entity
\* has a given coordinate (spawned_chunks is a set and holds it once).
C1_NoCoordinateDuplication ==
    \A e1, e2 \in Entities : Coord(e1) = Coord(e2) => e1 = e2

\* A coordinate that was reset by a Welcome is spawned again, once.
C1_Witness ==
    /\ seed \in ServerSeeds
    /\ \E e \in Entities : e > 1 /\ Coord(e) = <<0, 0>>

\* C2: at every frame boundary spawned_chunks is exactly the set of the
\* coordinates of the live Chunk entities.
C2_RegistryMatchesEntities ==
    phase = "idle" => spawned_chunks = LiveCoords

\* A frame boundary after spawns, a despawn pass that removed a chunk and a
\* seed reset.
C2_Witness ==
    /\ phase = "idle"
    /\ seed \in ServerSeeds
    /\ cam # <<0, 0>>
    /\ spawned_chunks # {}
    /\ next_entity - 1 > Cardinality(Entities)

\* C3: in one tick generate_chunks spawns at most max_chunks_per_frame chunks
\* and update_chunk_lod launches at most max_chunks_per_frame rebuilds.
C3_RateLimit ==
    /\ Len(cmds["generate_chunks"]) <= max_chunks_per_frame
    /\ Len(cmds["update_chunk_lod"]) <= max_chunks_per_frame

\* Both drains used their whole budget and left entries in their queues.
C3_Witness ==
    /\ Len(cmds["generate_chunks"]) = max_chunks_per_frame
    /\ to_spawn # <<>>
    /\ Len(cmds["update_chunk_lod"]) = max_chunks_per_frame
    /\ lod_to_update # <<>>

\* C4: a chunk exactly at render_distance from the viewpoint chunk is not
\* despawned when the viewpoint jitters by less than one chunk unit (two half
\* units), also when the jitter changes both rounded coordinates.
C4_Hysteresis ==
    \A i \in DOMAIN Despawning :
        LET p == Coord(Despawning[i].e)
            now == trace.d_cam[1]
            before == trace.d_cam[2]
        IN  ~(/\ DistSq(now, before) < 2 * 2
              /\ last_render_distance = trace.d_rd
              /\ DistSq(p, CamChunkOf(before)) = trace.d_rd[1] * trace.d_rd[1])

\* C5: the despawn pass removes a chunk only if its squared distance to the
\* viewpoint chunk of the tick is greater than (render_distance + 1)^2; moving
\* from chunk (0,0) to (1,0) with exactly the chunks within render_distance of
\* the origin spawned despawns nothing in that tick.
C5_DespawnBeyondMargin ==
    /\ \A i \in DOMAIN Despawning :
          DistSq(Coord(Despawning[i].e), CamChunkOf(trace.d_cam[1]))
              > (trace.d_rd[1] + 1) * (trace.d_rd[1] + 1)
    /\ (/\ Ran("despawn_out_of_bounds_chunks") /\ phase = "post"
        /\ trace.d_moved
        /\ CamChunkOf(trace.d_cam[1]) = <<1, 0>>
        /\ CamChunkOf(trace.d_cam[2]) = <<0, 0>>
        /\ LiveCoords = Disk(<<0, 0>>, trace.d_rd[1]))
       => Despawning = <<>>

\* The chunks around the origin are complete, the viewpoint moved to chunk
\* (1,0) in this tick and the pass has run.
C5_Witness ==
    /\ Ran("despawn_out_of_bounds_chunks") /\ phase = "post"
    /\ trace.d_moved
    /\ CamChunkOf(trace.d_cam[1]) = <<1, 0>>
    /\ CamChunkOf(trace.d_cam[2]) = <<0, 0>>
    /\ LiveCoords = Disk(<<0, 0>>, trace.d_rd[1])
    /\ Despawning = <<>>

\* C6: with render_distance 3, an empty registry and the viewpoint at the
\* origin, the first rescan queues exactly the 29 coordinates with
\* x^2 + z^2 <= 9, nearest first; with max_chunks_per_frame = 100 the same tick
\* drains to_spawn completely and leaves spawned_chunks, and after the flush
\* the live chunks, with exactly these 29 coordinates.
C6_OriginScenario ==
    (render_distance = 3 /\ Ran("generate_chunks")) =>
        /\ trace.g_rescan
        /\ Len(trace.g_scan) = 29
        /\ Range(trace.g_scan) = Disk(<<0, 0>>, 3)
        /\ <<3, 3>> \notin Range(trace.g_scan)
        /\ max_chunks_per_frame = DefaultMaxChunksPerFrame =>
              /\ to_spawn = <<>>
              /\ Cardinality(spawned_chunks) = 29
              /\ spawned_chunks = Disk(<<0, 0>>, 3)
              /\ phase = "update" => Len(cmds["generate_chunks"]) = 29
              /\ phase # "update" => LiveCoords = Disk(<<0, 0>>, 3)

C6_Witness ==
    /\ render_distance = 3
    /\ max_chunks_per_frame = DefaultMaxChunksPerFrame
    /\ phase = "idle" /\ frames_left = 0
    /\ Cardinality(Entities) = 29
    /\ to_spawn = <<>>

\* C7: every chunk entity has at most one build in flight: the ChunkTask it
\* carries and the tasks launched for it in this frame (whose ChunkTask is
\* inserted at the flush) are at most one.
C7_OneBuildPerChunk ==
    \A e \in Entities :
        (IF HasTask(e) /\ ~ent[e].task[1].done THEN 1 ELSE 0)
          + Launches(cmds["modify_plane"], e)
          + Launches(cmds["update_chunk_lod"], e) <= 1

\* C8: a frame that begins with just_updated set rescans in generate_chunks
\* and in update_chunk_lod.
C8_ForcedRescan ==
    (trace.updated /\ Ran("generate_chunks") /\ Ran("update_chunk_lod"))
        => (trace.g_rescan /\ trace.l_rescan)

\* C9: a run of generate_chunks with the viewpoint chunk equal to
\* last_camera_chunk, the render distance equal to the last scanned one and
\* just_updated clear does not rescan, and to_spawn only shrinks from the
\* front; a run of update_chunk_lod with the viewpoint chunk equal to its
\* last_cam_pos and just_updated clear does not rescan, and lod_to_update only
\* shrinks from the front.
C9_NoRescanWithoutChange ==
    [][/\ (/\ "generate_chunks" \in todo /\ "generate_chunks" \notin todo'
           /\ last_camera_chunk = <<CamChunk>>
           /\ last_render_distance = <<render_distance>>
           /\ ~just_updated)
          => (/\ ~trace'.g_rescan
              /\ IsSuffix(to_spawn', to_spawn)
              /\ last_camera_chunk' = last_camera_chunk)
       /\ (/\ "update_chunk_lod" \in todo /\ "update_chunk_lod" \notin todo'
           /\ last_cam_pos = <<CamChunk>>
           /\ ~just_updated)
          => (/\ ~trace'.l_rescan
              /\ IsSuffix(lod_to_update', lod_to_update)
              /\ last_cam_pos' = last_cam_pos)]_vars

\* A tick in which neither system rescanned while generate_chunks went on
\* draining to_spawn.
C9_Witness ==
    /\ Ran("generate_chunks") /\ Ran("update_chunk_lod")
    /\ ~trace.g_rescan /\ ~trace.l_rescan
    /\ cmds["generate_chunks"] # <<>>

\* C10: a visible chunk shows a mesh that a completed build displaced, never
\* the flat plane it was spawned with; once the commands of the frame are
\* applied that mesh is in the mesh store.
C10_VisibleOnlyWhenBuilt ==
    \A e \in Entities :
        ent[e].vis =>
            /\ ent[e].mesh \in DOMAIN meshes => meshes[ent[e].mesh].gen # 0
            /\ phase # "update" => ent[e].mesh \in DOMAIN meshes

\* A chunk made visible by the swap of a LOD rebuild into its new handle.
C10_Witness ==
    \E e \in Entities :
        /\ ent[e].vis
        /\ ent[e].mesh # SpawnHandle(e)
        /\ ent[e].mesh \in DOMAIN meshes
        /\ meshes[ent[e].mesh].gen # 0

\* C11: the step that replaces the generator (the Welcome handler; the
\* connection-loss handler check_connection_status is in no schedule) queues
\* the despawn of every existing chunk, takes their coordinates out of
\* spawned_chunks, empties to_spawn and lod_to_update and forces a rescan; once
\* the commands of Update are applied, no live chunk carries a mesh or an
\* in-flight build of another seed than the generator's, whatever the order
\* of the systems.
C11_SeedResetIsFull ==
    /\ [][seed' # seed =>
            /\ \A e \in Entities :
                  /\ \E i \in DOMAIN cmds'["receive_server_messages"] :
                        cmds'["receive_server_messages"][i] = [op |-> "despawn", e |-> e, arg |-> 0]
                  /\ Coord(e) \notin spawned_chunks'
            /\ to_spawn' = <<>> /\ lod_to_update' = <<>>
            /\ last_camera_chunk' = <<>> /\ just_updated']_vars
    /\ [](phase # "update" =>
            \A e \in Entities :
                /\ HasTask(e) => ent[e].task[1].mesh.gen = seed
                /\ ent[e].mesh \in DOMAIN meshes => meshes[ent[e].mesh].gen \in {0, seed})

\* The Welcome was handled in a frame in which modify_plane had already
\* launched a build with the previous generator for a chunk that existed.
C11_Witness ==
    /\ phase = "update" /\ todo = {}
    /\ seed \in ServerSeeds
    /\ cmds["receive_server_messages"] # <<>>
    /\ \E i \in DOMAIN cmds["modify_plane"] : cmds["modify_plane"][i].arg.mesh.gen = LocalSeed

\* C12: a chunk is spawned only from to_spawn, a LOD rebuild is launched only
\* for a chunk that is visible, and the despawn pass removes only chunks that
\* are visible and have no build pending.
C12_ChunkStateMachine ==
    /\ \A i \in DOMAIN cmds["generate_chunks"] :
          <<cmds["generate_chunks"][i].arg.x, cmds["generate_chunks"][i].arg.z>>
              \in Range(trace.g_scan)
    /\ \A i \in DOMAIN cmds["update_chunk_lod"] :
          cmds["update_chunk_lod"][i].e \in Entities
              => ent[cmds["update_chunk_lod"][i].e].vis
    /\ \A i \in DOMAIN Despawning :
          Despawning[i].e \in Entities
              => ent[Despawning[i].e].vis /\ ~HasTask(Despawning[i].e)

\* C13: a chunk the despawn pass removes has its coordinate in no entry of
\* to_spawn and its entity in no entry of lod_to_update, and it is fully
\* realized: its build completed (it is visible) and no build is pending.
C13_DespawnDisjointFromQueues ==
    \A i \in DOMAIN Despawning :
        LET e == Despawning[i].e
        IN  e \in Entities =>
                /\ Coord(e) \notin Range(to_spawn)
                /\ e \notin Range(lod_to_update)
                /\ ent[e].vis
                /\ ~HasTask(e)

\* C14: the poll never waits: whichever of the pending builds have finished,
\* the poll loop of handle_compute_tasks swaps only finished ones in and
\* passes over the others (with none finished it swaps nothing); a chunk for
\* which a run queued no swap keeps its mesh, its visibility and its
\* ChunkTask; and a frame that begins with a build pending polls again.
C14_PollNeverWaits ==
    /\ [](\A ready \in SUBSET TaskQuery :
            Range(PollLoop(TaskPriorities(CamChunk), ready, <<>>, max_chunks_per_frame))
                \subseteq ready)
    /\ [][("handle_compute_tasks" \in todo /\ "handle_compute_tasks" \notin todo') =>
            \A e \in TaskQuery :
                (\A i \in DOMAIN cmds'["handle_compute_tasks"] :
                        cmds'["handle_compute_tasks"][i].e # e)
                => /\ ent'[e] = ent[e]
                   /\ ent[e].mesh \in DOMAIN meshes =>
                         /\ ent[e].mesh \in DOMAIN meshes'
                         /\ meshes'[ent[e].mesh] = meshes[ent[e].mesh]]_vars
    /\ [][(phase = "idle" /\ phase' = "update" /\ TaskQuery # {}) =>
            "handle_compute_tasks" \in todo']_vars

\* A run of handle_compute_tasks swapped one build in and left another,
\* unfinished one pending.
C14_Witness ==
    /\ phase = "update" /\ Ran("handle_compute_tasks")
    /\ cmds["handle_compute_tasks"] # <<>>
    /\ TaskQuery # {}

\* C15: when handle_compute_tasks is about to poll, the world reached once
\* all builds in flight have completed and been swapped in (the chunks' mesh
\* handles, visibility and current_lod, and the meshes behind the handles) is
\* the same for every order of completion (every order of up to
\* MaxOrderedBuilds builds, every order of two builds among more), and the
\* completion of one build changes no other chunk and no other chunk's mesh.
C15_CompletionOrderIrrelevant ==
    (phase = "update" /\ "handle_compute_tasks" \in todo) =>
        /\ Cardinality(TaskQuery) <= MaxOrderedBuilds =>
              \A o \in Orders(TaskQuery) :
                  CompleteBuilds(World, o) = CompleteBuilds(World, SetToSeq(TaskQuery))
        /\ \A e, f \in TaskQuery :
              CompleteBuilds(World, <<e, f>>) = CompleteBuilds(World, <<f, e>>)
        /\ \A e \in TaskQuery :
              LET w == CompleteBuild(World, e)
              IN  \A f \in Entities \ {e} :
                      /\ w.ent[f] = ent[f]
                      /\ ent[f].mesh \in DOMAIN meshes =>
                            /\ ent[f].mesh \in DOMAIN w.meshes
                            /\ w.meshes[ent[f].mesh] = meshes[ent[f].mesh]

\* An initial build and a LOD rebuild with different results are in flight.
C15_Witness ==
    /\ phase = "update"
    /\ \E e, f \in TaskQuery :
          /\ ent[e].task[1].new_handle = <<>>
          /\ ent[f].task[1].new_handle # <<>>
          /\ ent[e].task[1].mesh.sub # ent[f].task[1].mesh.sub

\* C16: the build of a despawned chunk leaves no trace: the generated mesh
\* behind the handle of every live chunk, and the result of every build a
\* live chunk carries, was computed at that chunk's own position; only a
\* spawn by generate_chunks adds a coordinate to spawned_chunks; and a chunk
\* that has just been spawned (also at a coordinate whose former chunk was
\* despawned with its build in flight) is hidden, flat and carries no build,
\* so that modify_plane launches its own.
C16_OrphanedBuildDiscarded ==
    /\ [](\A e \in Entities :
            /\ (ent[e].mesh \in DOMAIN meshes /\ meshes[ent[e].mesh].gen # 0)
                  => meshes[ent[e].mesh].at = Coord(e)
            /\ HasTask(e) => ent[e].task[1].mesh.at = Coord(e)
            /\ ent[e].added =>
                  /\ ~ent[e].vis /\ ~HasTask(e)
                  /\ ent[e].mesh \in DOMAIN meshes /\ meshes[ent[e].mesh].gen = 0)
    /\ [][/\ ~(spawned_chunks' \subseteq spawned_chunks) =>
              ("generate_chunks" \in todo /\ "generate_chunks" \notin todo')
           /\ \A e \in Entities \ DOMAIN ent' : \A f \in Entities \cap DOMAIN ent' :
                 (ent'[f].mesh \in DOMAIN meshes' /\ meshes'[ent'[f].mesh].gen # 0)
                     => meshes'[ent'[f].mesh].at # Coord(e)]_vars

\* A build was polled to completion in the frame in which its chunk is
\* despawned.
C16_Witness ==
    \E e \in Entities :
        /\ HasTask(e) /\ ent[e].task[1].done
        /\ \E i \in DOMAIN cmds["handle_compute_tasks"] : cmds["handle_compute_tasks"][i].e = e
        /\ \E s \in {"receive_server_messages", "despawn_out_of_bounds_chunks"} :
              \E i \in DOMAIN cmds[s] : cmds[s][i] = [op |-> "despawn", e |-> e, arg |-> 0]

\* The program after construction, with the order of the two drains of the
\* first frame recorded.
InitOrder ==
    /\ InitWorld
    /\ terrain = NoTerrain
    /\ trace = [NoTrace EXCEPT !.order = <<"">>]
    /\ render_distance = 1
    /\ lod_quality_multiplier = 1
    /\ lod_distance_multiplier = 1
    /\ max_chunks_per_frame = MaxChunksPerFrame
    /\ moves_left = MaxMoves
    /\ resets_left = MaxResets
    /\ settings_left = MaxSettingsChanges
    /\ frames_left = MaxFrames

SpecOrder == InitOrder /\ [][Next]_vars

\* C17: in every frame the spawn-queue drain (generate_chunks), the LOD-queue
\* drain (update_chunk_lod) and the despawn scan
\* (despawn_out_of_bounds_chunks) run in the same order: the one of the two
\* drains that ran first in the first frame runs first in every frame, and
\* the despawn scan runs after both.
C17_FixedSystemOrder ==
    /\ (phase = "update" /\ Ran("generate_chunks") # Ran("update_chunk_lod"))
          => Ran(trace.order[1])
    /\ (phase = "post" /\ Ran("despawn_out_of_bounds_chunks"))
          => (Ran("generate_chunks") /\ Ran("update_chunk_lod"))

\* C18: with the LOD table of main and the multipliers in force,
\* get_lod_subdivisions never assigns more subdivisions to the farther of two
\* squared distances, and the chunks generate_chunks has spawned around an
\* unmoved viewpoint carry counts that do not grow with their distance.
C18_LodMonotone ==
    /\ \A d1, d2 \in 0..MaxDistanceSq :
          d1 < d2 =>
             get_lod_subdivisions(d1, lod_quality_multiplier, lod_distance_multiplier)
                >= get_lod_subdivisions(d2, lod_quality_multiplier, lod_distance_multiplier)
    /\ \A e, f \in Entities :
          DistSq(Coord(e), CamChunk) < DistSq(Coord(f), CamChunk)
             => ent[e].current_lod >= ent[f].current_lod

\* Chunks of three different counts are live, and the counts on both sides
\* of every band boundary and beyond the last band differ.
C18_Witness ==
    /\ \E e, f, g \in Entities :
          /\ DistSq(Coord(e), CamChunk) < DistSq(Coord(f), CamChunk)
          /\ DistSq(Coord(f), CamChunk) < DistSq(Coord(g), CamChunk)
          /\ ent[e].current_lod > ent[f].current_lod
          /\ ent[f].current_lod > ent[g].current_lod
    /\ Cardinality({get_lod_subdivisions(d, lod_quality_multiplier, lod_distance_multiplier) :
                       d \in 0..MaxDistanceSq}) = Len(lod_levels)
    /\ lod_distance_multiplier * lod_distance_multiplier
          * lod_levels[Len(lod_levels)][1] * lod_levels[Len(lod_levels)][1]
          < MaxDistanceSq * 10000

\* C20: the height the initial build task and the LOD rebuild task write
\* into a vertex at a world position is the value get_terrain_height returns
\* for that position with the same generator, from whichever chunk the vertex
\* is and at whatever altitude the caller is.
C20_BuildsAgreeWithQuery ==
    /\ (terrain.built # <<>> /\ terrain.queried # <<>>) => terrain.built = terrain.queried
    /\ (terrain.rebuilt # <<>> /\ terrain.queried # <<>>) => terrain.rebuilt = terrain.queried
    /\ (terrain.built # <<>> /\ terrain.rebuilt # <<>>) => terrain.built = terrain.rebuilt

\* The three code paths have computed a height at a vertex two chunks share,
\* and the biome's elevation offset and the layers both contribute to it.
C20_Witness ==
    /\ terrain.built # <<>> /\ terrain.rebuilt # <<>> /\ terrain.queried # <<>>
    /\ Cardinality({cv[1] : cv \in VerticesAtPos}) > 1
    /\ LET p == <<terrain.pos[1], 0, terrain.pos[2]>>
           climate == get_climate(terrain.world_generator, p)
       IN  /\ get_biome_elevation_offset(climate[1], climate[2], terrain.consts) # 0
           /\ base_height(terrain.world_generator.terrain_layers, p, 1, 0) # 0
           /\ terrain.queried[1] # 0

\* The stops of a palette strictly below a height, the band a height lies
\* in, and the largest change of a channel that one hundredth of height can
\* make in a full linear gradient of the palette.
StopsBelow(palette, height) == {i \in DOMAIN palette : palette[i].height < height}
NearestLowerStop(palette, height) ==
    CHOOSE i \in StopsBelow(palette, height) : \A j \in StopsBelow(palette, height) : j <= i
Dist(a, b) == IF a >= b THEN a - b ELSE b - a
ChannelGap(c, d) ==
    Max(Max(Dist(c.rgb[1], d.rgb[1]), Dist(c.rgb[2], d.rgb[2])), Dist(c.rgb[3], d.rgb[3]))
GradientStep(palette) ==
    LET step(i) == (ChannelGap(to_linear(palette[i].color), to_linear(palette[i + 1].color))
                      * (1000 \div (palette[i + 1].height - palette[i].height) + 1)) \div 1000 + 1
    IN  CHOOSE m \in {step(i) : i \in 1..(Len(palette) - 1)} :
            \A i \in 1..(Len(palette) - 1) : step(i) <= m

\* C21: with smoothness 1.0 the colour has no jump: at the height of a stop
\* it is that stop's colour, and one hundredth of height up or down changes
\* no channel by more than the gradient does; with smoothness 0.0 the colour
\* is the colour of the nearest stop strictly below the height (of the first
\* stop when there is none), up to and including the next threshold.
C21_ColorContinuity ==
    terrain.color # <<>> =>
        LET p == terrain.palette
            h == terrain.height
            c == to_linear(terrain.color[1])
        IN  /\ terrain.smoothness = 1000 =>
                 /\ \A i \in DOMAIN p : h = p[i].height => c = to_linear(p[i].color)
                 /\ ChannelGap(c, to_linear(get_color_from_palette(h + 1, p, 1000)))
                       <= GradientStep(p)
                 /\ ChannelGap(c, to_linear(get_color_from_palette(h - 1, p, 1000)))
                       <= GradientStep(p)
            /\ terrain.smoothness = 0 =>
                 c = to_linear(p[IF StopsBelow(p, h) = {} THEN 1
                                 ELSE NearestLowerStop(p, h)].color)

\* The colour was computed at the height of an inner stop, with full
\* smoothness and with none.
C21_Witness ==
    /\ terrain.color # <<>>
    /\ terrain.smoothness \in {0, 1000}
    /\ \E i \in 2..(Len(terrain.palette) - 1) :
          /\ terrain.height = terrain.palette[i].height
          /\ to_linear(terrain.palette[i].color) # to_linear(terrain.palette[i - 1].color)

\* C22: in a band the colour is exactly the lower stop's colour while the
\* position t in the band is at most 1 - smoothness, and past that point the
\* linear interpolation from the lower to the upper stop's colour by
\* (t - (1 - smoothness)) / smoothness; at or below the first stop it is the
\* first colour and above the last stop the last colour.
C22_BandBlend ==
    terrain.color # <<>> =>
        LET p == terrain.palette
            h == terrain.height
            s == terrain.smoothness
            c == to_linear(terrain.color[1])
        IN  IF h <= p[1].height THEN c = to_linear(p[1].color)
            ELSE IF h > p[Len(p)].height THEN c = to_linear(p[Len(p)].color)
            ELSE LET lo == p[NearestLowerStop(p, h)]
                     hi == p[NearestLowerStop(p, h) + 1]
                     t == ((h - lo.height) * 1000) \div (hi.height - lo.height)
                     w == ((t - (1000 - s)) * 1000) \div s
                 IN  IF t <= 1000 - s THEN c = to_linear(lo.color)
                     ELSE \A i \in 1..3 :
                             c.rgb[i] = (to_linear(lo.color).rgb[i] * (1000 - w)
                                           + to_linear(hi.color).rgb[i] * w) \div 1000

\* The colour was computed inside the blending part of a band with a
\* smoothness strictly between 0 and 1, and is neither stop's colour.
C22_Witness ==
    /\ terrain.color # <<>>
    /\ terrain.smoothness \in {250, 500}
    /\ terrain.height > terrain.palette[1].height
    /\ terrain.height <= terrain.palette[Len(terrain.palette)].height
    /\ LET lo == terrain.palette[NearestLowerStop(terrain.palette, terrain.height)]
           hi == terrain.palette[NearestLowerStop(terrain.palette, terrain.height) + 1]
       IN  /\ to_linear(terrain.color[1]) # to_linear(lo.color)
           /\ to_linear(terrain.color[1]) # to_linear(hi.color)

\* C23: the temperature and the humidity get_climate returns are each
\* (raw / vertical_scale + 1) / 2 brought into 0.00..1.00, for every sample
\* of the two layers, also one outside the nominal range of the noise.
C23_ClimateInUnitInterval ==
    terrain.climate # <<>> =>
        LET remap(raw, layer) == (((raw * 100) \div layer.vertical_scale) + 100) \div 2
            unit(v) == IF v < 0 THEN 0 ELSE IF v > 100 THEN 100 ELSE v
            c == terrain.climate[1]
        IN  /\ c[1] \in 0..100 /\ c[2] \in 0..100
            /\ c[1] = unit(remap(terrain.raw_temp, terrain.world_generator.temperature_layer))
            /\ c[2] = unit(remap(terrain.raw_hum, terrain.world_generator.humidity_layer))

\* The climate was computed from a temperature sample above the nominal
\* range and a humidity sample below it.
C23_Witness ==
    /\ terrain.climate # <<>>
    /\ terrain.raw_temp > 100 /\ terrain.raw_hum < -100
    /\ terrain.climate[1] = <<100, 0>>

\* C24: get_biome returns one of the five biomes: Ocean when the normalized
\* humidity exceeds the ocean humidity threshold plus its offset or the
\* normalized temperature is above the hot or below the cold extreme, and
\* otherwise the land biome of the quadrant (temperature > 0.5: Forest if
\* humidity > 0.45, else Desert; temperature <= 0.5: Grasslands if humidity
\* < 0.45, else Taiga).
C24_BiomeClassification ==
    terrain.biome # <<>> =>
        LET k == terrain.consts
            normal(raw, layer) == (((raw * 100) \div layer.vertical_scale) + 100) \div 2
            temp == normal(terrain.raw_temp, terrain.world_generator.temperature_layer)
            hum == normal(terrain.raw_hum, terrain.world_generator.humidity_layer)
            ocean == \/ hum > k.OCEAN_HUMIDITY_THRESHOLD + k.OCEAN_HUMIDITY_OFFSET
                     \/ temp > k.OCEAN_HOT_TEMP_THRESHOLD
                     \/ temp < k.OCEAN_COLD_TEMP_THRESHOLD
            b == terrain.biome[1]
        IN  /\ b \in {"Desert", "Grasslands", "Taiga", "Forest", "Ocean"}
            /\ ocean => b = "Ocean"
            /\ (~ocean /\ temp > 50 /\ hum > 45) => b = "Forest"
            /\ (~ocean /\ temp > 50 /\ hum <= 45) => b = "Desert"
            /\ (~ocean /\ temp <= 50 /\ hum < 45) => b = "Grasslands"
            /\ (~ocean /\ temp <= 50 /\ hum >= 45) => b = "Taiga"

\* The biome of a cold, dry place was asked for and is Ocean.
C24_Witness ==
    /\ terrain.biome = <<"Ocean">>
    /\ terrain.raw_temp < -90
    /\ terrain.raw_hum < 0

\* Queues as a rescan of an earlier tick may have left them: up to
\* MaxStaleQueue coordinates, near and far, also repeated.
StaleCoords == {<<0, 0>>, <<1, 0>>, <<0, 2>>, <<3, -1>>}
StaleQueues == UNION {[1..n -> StaleCoords] : n \in 0..MaxStaleQueue}
Min(a, b) == IF a <= b THEN a ELSE b

\* C25: every chunk the drain of generate_chunks spawns is within
\* render_distance (squared distances) of the viewpoint chunk of that tick,
\* was not in spawned_chunks before, is added to it, and gets the count of the
\* LOD table for its distance; and whatever queue the drain meets, the
\* entries that fail the final check are dropped, spawn nothing and use no
\* budget: the drain spawns as many of the valid coordinates as the budget
\* allows.
C25_SpawnRevalidated ==
    [][("generate_chunks" \in todo /\ "generate_chunks" \notin todo') =>
         LET c == CamChunk
             spawns == cmds'["generate_chunks"]
             P(i) == <<spawns[i].arg.x, spawns[i].arg.z>>
             valid(p) == DistSq(p, c) <= render_distance * render_distance
                            /\ p \notin spawned_chunks
         IN  /\ \A i \in DOMAIN spawns :
                   /\ spawns[i].op = "spawn"
                   /\ valid(P(i))
                   /\ spawns[i].arg.lod =
                         get_lod_subdivisions(DistSq(P(i), c), lod_quality_multiplier,
                                              lod_distance_multiplier)
                   /\ \A j \in DOMAIN spawns : P(i) = P(j) => i = j
             /\ spawned_chunks' = spawned_chunks \cup {P(i) : i \in DOMAIN spawns}
             /\ \A queue \in StaleQueues :
                   LET d == DrainSpawn(queue, spawned_chunks, <<>>, c, render_distance,
                                       max_chunks_per_frame)
                   IN  /\ \A i \in DOMAIN d.out : valid(d.out[i])
                       /\ d.spawned = spawned_chunks \cup Range(d.out)
                       /\ Len(d.out) = Min(max_chunks_per_frame,
                                           Cardinality({p \in Range(queue) : valid(p)}))
                       /\ IsSuffix(d.queue, queue)]_vars

\* generate_chunks has spawned chunks around a viewpoint that is not in the
\* chunk of the origin, one of them away from the viewpoint chunk.
C25_Witness ==
    /\ phase = "update" /\ Ran("generate_chunks")
    /\ CamChunk # <<0, 0>>
    /\ \E i \in DOMAIN cmds["generate_chunks"] :
          /\ cmds["generate_chunks"][i].op = "spawn"
          /\ <<cmds["generate_chunks"][i].arg.x, cmds["generate_chunks"][i].arg.z>> # CamChunk
          /\ <<cmds["generate_chunks"][i].arg.x, cmds["generate_chunks"][i].arg.z>>
                \in spawned_chunks

\* A sequence of coordinates is in order of non-decreasing distance to c.
NearestFirst(queue, c) ==
    \A i, j \in DOMAIN queue : i < j => DistSq(queue[i], c) <= DistSq(queue[j], c)

\* C26: the queue a rescan of generate_chunks builds is ordered by
\* non-decreasing distance to the viewpoint chunk, and so are the chunks a
\* drain spawns (rebuilds) and the entries it leaves; no entry a drain of
\* generate_chunks or of update_chunk_lod leaves for a later tick, and that
\* is still valid, is strictly nearer than a chunk the drain spawned
\* (rebuilt) in this tick.
C26_NearestFirst ==
    [][LET c == CamChunk
       IN  /\ ("generate_chunks" \in todo /\ "generate_chunks" \notin todo') =>
                LET spawns == cmds'["generate_chunks"]
                    P(i) == <<spawns[i].arg.x, spawns[i].arg.z>>
                IN  /\ trace'.g_rescan => NearestFirst(trace'.g_scan, c)
                    /\ NearestFirst([i \in DOMAIN spawns |-> P(i)] \o to_spawn', c)
           /\ ("update_chunk_lod" \in todo /\ "update_chunk_lod" \notin todo') =>
                LET launches == cmds'["update_chunk_lod"]
                    left == SelectSeq(lod_to_update',
                               LAMBDA e : e \in LodQuery /\ DesiredLod(e, c) # ent[e].current_lod
                                             /\ \A i \in DOMAIN launches : launches[i].e # e)
                IN  NearestFirst([i \in DOMAIN launches |-> Coord(launches[i].e)]
                                    \o [i \in DOMAIN left |-> Coord(left[i])], c)]_vars

\* In one tick generate_chunks has spawned a chunk and left a strictly
\* farther coordinate queued, and update_chunk_lod has launched a rebuild and
\* left a strictly farther chunk queued.
C26_Witness ==
    /\ phase = "update" /\ Ran("generate_chunks") /\ Ran("update_chunk_lod")
    /\ \E i \in DOMAIN cmds["generate_chunks"] : \E j \in DOMAIN to_spawn :
          DistSq(<<cmds["generate_chunks"][i].arg.x, cmds["generate_chunks"][i].arg.z>>, CamChunk)
             < DistSq(to_spawn[j], CamChunk)
    /\ \E i \in DOMAIN cmds["update_chunk_lod"] : \E j \in DOMAIN lod_to_update :
          /\ lod_to_update[j] \in Entities /\ cmds["update_chunk_lod"][i].e \in Entities
          /\ DistSq(Coord(cmds["update_chunk_lod"][i].e), CamChunk)
                < DistSq(Coord(lod_to_update[j]), CamChunk)


\* C27: a despawn pass queues at most 2 * max_chunks_per_frame chunks for
\* removal, every one of them beyond render_distance + 1 from the viewpoint
\* chunk, listed farthest first with no chunk left behind that is farther than
\* one taken, and it takes the coordinates of exactly these chunks out of
\* spawned_chunks in the same pass.
DespawnPass ==
    /\ "despawn_out_of_bounds_chunks" \in todo
    /\ "despawn_out_of_bounds_chunks" \notin todo'

DespawnedNow == [i \in 1..Len(cmds'["despawn_out_of_bounds_chunks"]) |->
                    cmds'["despawn_out_of_bounds_chunks"][i].e]

C27_DespawnPass ==
    [][DespawnPass =>
        LET gone == DespawnedNow
            far == {e \in Entities :
                      DistSq(Coord(e), CamChunk) > (render_distance + 1) * (render_distance + 1)}
            d(e) == DistSq(Coord(e), CamChunk)
        IN  /\ Len(gone) <= 2 * max_chunks_per_frame
            /\ Cardinality(Range(gone)) = Len(gone)
            /\ Range(gone) \subseteq far
            /\ \A i, j \in 1..Len(gone) : i < j => d(gone[i]) >= d(gone[j])
            /\ \A e \in Range(gone) : \A f \in far \ Range(gone) : d(f) <= d(e)
            /\ spawned_chunks' = spawned_chunks \ {Coord(e) : e \in Range(gone)}
            /\ \A e \in Range(gone) : Coord(e) \notin spawned_chunks']_vars

\* A pass that took its full allowance and had to leave an out-of-bounds chunk
\* for a later tick.
C27_Witness ==
    /\ phase = "post" /\ "despawn_out_of_bounds_chunks" \notin todo
    /\ trace.d_rd = <<render_distance>>
    /\ Len(cmds["despawn_out_of_bounds_chunks"]) = 2 * max_chunks_per_frame
    /\ \E e \in Entities :
          /\ OutOfBounds(Coord(e), CamChunk, render_distance)
          /\ \A i \in 1..Len(cmds["despawn_out_of_bounds_chunks"]) :
                cmds["despawn_out_of_bounds_chunks"][i].e # e
          /\ Coord(e) \in spawned_chunks

\* C28: a LOD rebuild launched for a chunk sets the chunk's current_lod to the
\* subdivision count of the rebuild in the same step, allocates a new mesh
\* handle holding the flat plane and leaves the chunk's mesh handle and the
\* mesh behind it alone; a chunk's mesh handle changes only in the flush of a
\* tick in which handle_compute_tasks completed the chunk's rebuild, and then
\* to the handle allocated at the launch, which holds the computed mesh of
\* current_lod subdivisions, while the old handle is gone from the mesh store.
LodLaunch ==
    /\ "update_chunk_lod" \in todo
    /\ "update_chunk_lod" \notin todo'

LaunchKeepsOldMesh ==
    \A i \in 1..Len(cmds'["update_chunk_lod"]) :
       LET k == cmds'["update_chunk_lod"][i]
           h == k.arg.new_handle[1]
       IN  /\ k.e \in Entities
           /\ ent'[k.e].current_lod = DesiredLod(k.e, CamChunk)
           /\ ent'[k.e].current_lod = k.arg.mesh.sub
           /\ ent'[k.e].current_lod # ent[k.e].current_lod
           /\ ent'[k.e].mesh = ent[k.e].mesh
           /\ ent'[k.e].vis = ent[k.e].vis
           /\ h \notin DOMAIN meshes
           /\ h \in DOMAIN meshes'
           /\ meshes'[h] = [sub |-> k.arg.mesh.sub, gen |-> 0, at |-> <<>>]
           /\ ent[k.e].mesh \in DOMAIN meshes =>
                 /\ ent[k.e].mesh \in DOMAIN meshes'
                 /\ meshes'[ent[k.e].mesh] = meshes[ent[k.e].mesh]

MeshSwitched(e) ==
    /\ e \in DOMAIN ent
    /\ e \in DOMAIN ent'
    /\ ent'[e].mesh # ent[e].mesh

SwitchOnCompletion(e) ==
    /\ phase = "update" /\ phase' = "post"
    /\ HasTask(e)
    /\ ent[e].task[1].done
    /\ \E i \in 1..Len(cmds["handle_compute_tasks"]) :
          cmds["handle_compute_tasks"][i] =
             [op |-> "set_mesh", e |-> e, arg |-> ent'[e].mesh]
    /\ \E k \in 1..next_handle : ent'[e].mesh = LodHandle(k)
    /\ ent'[e].mesh \in DOMAIN meshes'
    /\ meshes'[ent'[e].mesh] = ent[e].task[1].mesh
    /\ meshes'[ent'[e].mesh].sub = ent'[e].current_lod
    /\ meshes'[ent'[e].mesh].gen # 0
    /\ meshes'[ent'[e].mesh].at = Coord(e)
    /\ ent'[e].vis
    /\ ~ HasTask(e)'
    /\ ent[e].mesh \notin DOMAIN meshes'

C28_LodRebuildSwap ==
    [][/\ LodLaunch => LaunchKeepsOldMesh
       /\ \A e \in 1..next_entity : MeshSwitched(e) => SwitchOnCompletion(e)]_vars

\* A chunk that shows the mesh of a completed LOD rebuild.
C28_Witness ==
    \E e \in Entities :
       /\ \E k \in 1..next_handle : ent[e].mesh = LodHandle(k)
       /\ ent[e].mesh \in DOMAIN meshes
       /\ meshes[ent[e].mesh].gen # 0
       /\ meshes[ent[e].mesh].sub = ent[e].current_lod
       /\ ent[e].vis /\ ~ HasTask(e)

\* The queue the drain of update_chunk_lod starts from, the entries it takes
\* off the front and the chunks it launches a rebuild for.
LodScanned ==
    IF LodNeedsRescan(CamChunk, last_cam_pos, just_updated)
    THEN LodCandidates(CamChunk) ELSE lod_to_update

LodTaken == SubSeq(LodScanned, 1, Len(LodScanned) - Len(lod_to_update'))

LodLaunched ==
    {cmds'["update_chunk_lod"][i].e : i \in 1..Len(cmds'["update_chunk_lod"])}

\* A build of chunk e is under way: its ChunkTask is attached and not yet
\* polled to completion, or modify_plane has spawned the task in this tick
\* and the insert of the ChunkTask waits for the flush.
BuildPending(e) ==
    \/ e \in Entities /\ HasTask(e) /\ ~ ent[e].task[1].done
    \/ \E i \in 1..Len(cmds["modify_plane"]) :
          cmds["modify_plane"][i].op = "insert_task" /\ cmds["modify_plane"][i].e = e

\* What the drain does apart from the pending-build case: launches only for
\* live chunks whose desired LOD differs, drops every other entry it takes
\* without touching the chunk, and spends the budget on launches alone.
LodDrainDropsStale ==
    /\ lod_to_update' = SubSeq(LodScanned, Len(LodTaken) + 1, Len(LodScanned))
    /\ \A e \in LodLaunched :
          /\ e \in Range(LodTaken)
          /\ e \in Entities
          /\ DesiredLod(e, CamChunk) # ent[e].current_lod
    /\ \A e \in Range(LodTaken) \ LodLaunched :
          /\ \/ e \notin Entities
             \/ HasTask(e)
             \/ DesiredLod(e, CamChunk) = ent[e].current_lod
          /\ e \in Entities => ent'[e] = ent[e]
    /\ \A e \in Entities \ LodLaunched : ent'[e] = ent[e]
    /\ Cardinality(LodLaunched) = Len(cmds'["update_chunk_lod"])
    /\ Cardinality(LodLaunched) <= max_chunks_per_frame
    /\ lod_to_update' # <<>> => Cardinality(LodLaunched) = max_chunks_per_frame

\* C29: the drain of lod_to_update launches a rebuild only for a live chunk
\* whose desired LOD for the viewpoint chunk differs from its current_lod and
\* which has no build pending; every other entry it takes is dropped with the
\* chunk unchanged, and only launches count against max_chunks_per_frame.
C29_LodDrainSkipsPending ==
    [][LodLaunch =>
         /\ LodDrainDropsStale
         /\ \A e \in LodLaunched : ~ BuildPending(e)]_vars

LodDrainApartFromPending == [][LodLaunch => LodDrainDropsStale]_vars

(***************************************************************************)
(* The running application.  App::run never stops scheduling frames, every *)
(* system of a schedule runs in every frame, and the task pool finishes    *)
(* the builds it was given.                                                *)
(***************************************************************************)
\* The runner starts another frame after the last one.
KeepRunning ==
    /\ phase = "idle" /\ frames_left = 0
    /\ frames_left' = 1
    /\ UNCHANGED <<terrain, client, server, cam, prev_cam, seed, registry, settings, just_updated,
                   last_render_distance, last_cam_pos, ent, meshes, next_entity,
                   next_handle, cmds, inbox, phase, todo, trace, moves_left,
                   resets_left, settings_left>>

\* The steps of the schedules.
Frame ==
    \/ BeginFrame
    \/ camera_controls
    \/ generate_chunks
    \/ modify_plane
    \/ handle_compute_tasks
    \/ update_chunk_lod
    \/ receive_server_messages
    \/ EndUpdate
    \/ despawn_out_of_bounds_chunks
    \/ camera_follow_aircraft
    \/ EndFrame
    \/ KeepRunning

\* poll_once returns the mesh of at least one build.
BuildCompletes ==
    /\ handle_compute_tasks
    /\ cmds'["handle_compute_tasks"] # <<>>

\* Either a fresh start that nothing disturbs, or a world at rest that a
\* teleport, a seed reset or a change in the settings window then disturbs
\* at some tick.
InitLive ==
    /\ terrain = NoTerrain
    /\ frames_left = 1
    /\ \/ /\ InitWorld
          /\ trace = NoTrace
          /\ render_distance = 1
          /\ lod_quality_multiplier = 1
          /\ lod_distance_multiplier = 1
          /\ max_chunks_per_frame \in ChunkBudgets
          /\ moves_left = 0
          /\ resets_left = 0
          /\ settings_left = 0
       \/ /\ BuiltWorld
          /\ \E b \in {<<MaxMoves, 0, 0>>, <<0, MaxResets, 0>>, <<0, 0, MaxSettingsChanges>>} :
                moves_left = b[1] /\ resets_left = b[2] /\ settings_left = b[3]

NextLive ==
    \/ Frame
    \/ ServerWelcome
    \/ debugger_ui

\* A step of the schedules is possible in every state (idle: BeginFrame or
\* KeepRunning; update and post: a system of todo, or the flush once todo is
\* empty), so weak fairness of Frame says that such steps keep happening.
\* A build can complete exactly when handle_compute_tasks is still to run
\* in this tick and some chunk holds a ChunkTask that was not polled to
\* completion; strong fairness of BuildCompletes says that a completion keeps
\* happening while that is the case again and again.
BuildReady ==
    /\ phase = "update" /\ "handle_compute_tasks" \in todo
    /\ TaskQuery # {}
    /\ max_chunks_per_frame >= 1

FrameFairness == []<><<Frame>>_vars
BuildFairness == <>[](~ BuildReady) \/ []<><<BuildCompletes>>_vars

SpecLive ==
    /\ InitLive
    /\ [][NextLive]_vars
    /\ WF_vars(KeepRunning)
    /\ WF_vars(BeginFrame)
    /\ FrameFairness
    /\ BuildFairness

\* Every coordinate within render_distance of the viewpoint chunk is
\* registered and is the coordinate of a live, visible chunk.
WorldComplete ==
    \A p \in Disk(CamChunk, render_distance) :
       /\ p \in spawned_chunks
       /\ \E e \in Entities : Coord(e) = p /\ ent[e].vis

\* Under the fairness of SpecLive, after the one disturbance of a behaviour
\* every coordinate within render_distance of the viewpoint chunk ends up
\* spawned and visible and stays so.
EventuallyComplete == <>[]WorldComplete

\* The world is complete and at rest around the viewpoint chunk after a
\* teleport or after a seed reset, every chunk built from the current seed.
LiveWitness ==
    /\ WorldComplete
    /\ phase = "idle"
    /\ moves_left = 0 /\ resets_left = 0 /\ settings_left = 0 /\ inbox = <<>>
    /\ CamChunk # <<0, 0>> \/ seed # LocalSeed
    /\ \A e \in Entities : ~ HasTask(e) /\ meshes[ent[e].mesh].gen = seed

\* generate_chunks has nothing left to do and, as long as the viewpoint
\* chunk, the render distance and the seed stay as they are and no slider
\* sets just_updated, will do nothing in any later tick: no rescan is due and
\* to_spawn is empty.
SpawningSettled ==
    /\ phase = "idle"
    /\ inbox = <<>>
    /\ ~ just_updated
    /\ last_camera_chunk = <<CamChunk>>
    /\ last_render_distance = <<render_distance>>
    /\ to_spawn = <<>>

\* C30: once the viewpoint chunk, the render distance and the seed no longer
\* change (max_chunks_per_frame >= 1, builds completing), every coordinate
\* within render_distance of the viewpoint chunk is eventually spawned and
\* visible; so when generate_chunks has come to rest for good, no coordinate
\* within render_distance of the viewpoint chunk is missing.
C30_SettledWorldSpawned ==
    SpawningSettled => Disk(CamChunk, render_distance) \subseteq spawned_chunks

\* No live chunk and no registered coordinate lies farther than
\* render_distance + 1 from the viewpoint chunk.
NothingOutOfBounds ==
    /\ \A e \in Entities : ~ OutOfBounds(Coord(e), CamChunk, render_distance)
    /\ \A p \in spawned_chunks : ~ OutOfBounds(p, CamChunk, render_distance)

\* C31: once the viewpoint chunk and the render distance no longer change,
\* the despawn passes clear every chunk farther than render_distance + 1 from
\* the viewpoint chunk, and from then on no despawn pass takes a coordinate
\* out of spawned_chunks.
C31_DespawnSettles ==
    /\ <>[]NothingOutOfBounds
    /\ <>[][DespawnPass => spawned_chunks' = spawned_chunks]_vars

\* After a teleport the chunks left behind are gone and nothing is out of
\* bounds any more.
C31_Witness ==
    /\ phase = "idle"
    /\ moves_left = 0 /\ resets_left = 0 /\ settings_left = 0 /\ inbox = <<>>
    /\ seed = LocalSeed
    /\ CamChunk # <<0, 0>>
    /\ NothingOutOfBounds
    /\ \E p \in Range(BuiltOrder) : p \notin spawned_chunks

\* update_chunk_lod has nothing left to do for the chunks that exist and
\* will do nothing for them in any later tick while the viewpoint chunk and
\* the settings stay as they are: no rescan is due and lod_to_update is
\* empty.
LodSettled ==
    /\ phase = "idle"
    /\ inbox = <<>>
    /\ ~ just_updated
    /\ last_cam_pos = <<CamChunk>>
    /\ lod_to_update = <<>>

\* The LOD table as the sliders stood when the world was started.
LodSlidersUntouched ==
    /\ lod_quality_multiplier = 1
    /\ lod_distance_multiplier = 1

\* C32: once the viewpoint chunk and the settings no longer change and the
\* builds have completed, every chunk's current_lod is the LOD the table
\* assigns to its distance from the viewpoint chunk, also for a chunk that
\* had a build pending when the viewpoint last changed chunk; so when
\* update_chunk_lod has come to rest for good, no chunk has another LOD.
C32_SettledLodMatches ==
    (LodSettled /\ LodSlidersUntouched) =>
        \A e \in Entities : ent[e].current_lod = DesiredLod(e, CamChunk)

\* No build of chunk e is under way: it carries no ChunkTask and neither
\* launcher has queued one for it in this tick.
NoBuildPending(e) ==
    /\ ~ HasTask(e)
    /\ ~ BuildPending(e)
    /\ Launches(cmds["update_chunk_lod"], e) = 0

\* C33: a chunk with no build pending displays a mesh whose subdivision
\* count is its current_lod, whatever the interleaving of modify_plane, the
\* LOD drain and the build completions was.
C33_MeshMatchesLod ==
    \A e \in Entities :
       (NoBuildPending(e) /\ ent[e].mesh \in DOMAIN meshes) =>
          meshes[ent[e].mesh].sub = ent[e].current_lod

(***************************************************************************)
(* The spawn queue between frames.                                         *)
(***************************************************************************)
\* Between two frames: no system of the tick is running.
FrameBoundary == phase = "idle"

\* No coordinate occurs twice in the queue.
NoDuplicates(queue) == \A i, j \in DOMAIN queue : queue[i] = queue[j] => i = j

\* Every queued coordinate is within rd of the chunk the last rescan of
\* generate_chunks stored in last_camera_chunk.
QueueWithin(rd) ==
    \A i \in DOMAIN to_spawn :
       /\ last_camera_chunk # <<>>
       /\ DistSq(to_spawn[i], last_camera_chunk[1]) <= rd * rd

\* A step of generate_chunks.
GenerateStep == "generate_chunks" \in todo /\ "generate_chunks" \notin todo'

\* The drain of that step spawned every entry it removed from the queue:
\* the final check rejected none.
DrainRejectsNothing ==
    Len(trace'.g_scan) - Len(to_spawn') = Len(cmds'["generate_chunks"])

\* C34 as stated: at every frame boundary to_spawn holds no duplicate, no
\* coordinate of spawned_chunks, and only coordinates within render_distance
\* of last_camera_chunk.
C34_QueueValidAtFrameBoundary ==
    FrameBoundary =>
       /\ NoDuplicates(to_spawn)
       /\ Range(to_spawn) \cap spawned_chunks = {}
       /\ QueueWithin(render_distance)

\* C34, amended: at every frame boundary to_spawn holds no duplicate, no
\* coordinate of spawned_chunks, and only coordinates within the render
\* distance of the last rescan (last_render_distance) of last_camera_chunk;
\* when that differs from render_distance the next tick rescans before it
\* drains, so the final check of the drain never rejects an entry.
C34_QueueValidForLastRescan ==
    /\ [](FrameBoundary =>
            /\ NoDuplicates(to_spawn)
            /\ Range(to_spawn) \cap spawned_chunks = {}
            /\ to_spawn # <<>> => last_render_distance # <<>>
            /\ to_spawn # <<>> => QueueWithin(last_render_distance[1]))
    /\ [][GenerateStep => DrainRejectsNothing]_vars

\* A frame ends with coordinates still queued, one of them at the rim of
\* the render distance, after an earlier tick has already spawned chunks;
\* and a drain has worked on a queue left by an earlier tick.
C34_Witness ==
    /\ FrameBoundary
    /\ to_spawn # <<>>
    /\ spawned_chunks # {}
    /\ \E i \in DOMAIN to_spawn :
          DistSq(to_spawn[i], last_camera_chunk[1]) = render_distance * render_distance

(***************************************************************************)
(* The budget of handle_compute_tasks.                                     *)
(***************************************************************************)
\* A step of handle_compute_tasks.
PollStep == "handle_compute_tasks" \in todo /\ "handle_compute_tasks" \notin todo'

\* The chunks whose ChunkTask a poll has emptied: the commands that remove
\* the component are queued until the flush.
Polled == {e \in Entities : HasTask(e) /\ ent[e].task[1].done}

\* The entities of the remove::<ChunkTask>() commands, in the order queued.
SwapOrder(queue) ==
    LET removes == SelectSeq(queue, LAMBDA c : c.op = "remove_task")
    IN  [i \in DOMAIN removes |-> removes[i].e]

\* The squared chunk distance of e from the viewpoint chunk.
TaskDistance(e) == DistSq(Coord(e), CamChunk)

\* C35: a run of handle_compute_tasks swaps in at most max_chunks_per_frame
\* builds, each once and nearest to the viewpoint first; task_priorities
\* lists every pending build once; whichever builds have completed, the run
\* swaps in the nearest of them up to the budget, so a completed build left
\* over is no nearer than any build swapped in; a pending build the run does
\* not swap in keeps its ChunkTask and its meshes unchanged, through that run
\* and every later step, until a later run swaps it in or its chunk is
\* despawned.
C35_PollBudget ==
    /\ [][PollStep =>
            LET swaps == SwapOrder(cmds'["handle_compute_tasks"])
            IN  /\ Len(swaps) <= max_chunks_per_frame
                /\ NoDuplicates(swaps)
                /\ Range(swaps) = TaskQuery \ TaskQuery'
                /\ \A i, j \in DOMAIN swaps :
                      i < j => TaskDistance(swaps[i]) <= TaskDistance(swaps[j])
                /\ \A e \in TaskQuery \cap TaskQuery' :
                      LET hs == {ent[e].mesh} \cup TaskHandles(ent[e].task)
                      IN  \A h \in hs \cap DOMAIN meshes :
                             h \in DOMAIN meshes' /\ meshes'[h] = meshes[h]]_vars
    /\ [](/\ NoDuplicates(TaskPriorities(CamChunk))
          /\ Range(TaskPriorities(CamChunk)) = TaskQuery
          /\ \A ready \in SUBSET TaskQuery :
                LET done == PollLoop(TaskPriorities(CamChunk), ready, <<>>,
                                     max_chunks_per_frame)
                IN  /\ Len(done) = Min(max_chunks_per_frame, Cardinality(ready))
                    /\ \A e \in ready \ Range(done) : \A d \in Range(done) :
                          TaskDistance(d) <= TaskDistance(e))
    /\ [][\A e \in TaskQuery :
             \/ e \notin DOMAIN ent'
             \/ ent'[e].task = ent[e].task
             \/ PollStep /\ ent'[e].task = <<PolledTask(ent[e].task[1])>>]_vars

\* A run of handle_compute_tasks has used up its budget and a build farther
\* from the viewpoint than every build it swapped in is still pending.
C35_Witness ==
    /\ phase = "update" /\ Ran("handle_compute_tasks")
    /\ Cardinality(Polled) = max_chunks_per_frame
    /\ Len(SwapOrder(cmds["handle_compute_tasks"])) = max_chunks_per_frame
    /\ \E e \in TaskQuery : \A d \in Polled : TaskDistance(d) < TaskDistance(e)

(***************************************************************************)
(* The loss of the server connection.  The read task of connect_to_server  *)
(* signals the loss on the disconnect channel; check_connection_status is  *)
(* the system that receives the signal.  main adds check_connection_status *)
(* to no schedule: SpecConnection runs it in Update all the same, to       *)
(* settle what it does when it handles a disconnect.                       *)
(***************************************************************************)
\* The read task: Ok(None) or Err(e) from receive_message, then
\* disconnect_tx.send(()) and the task ends.
ServerLost ==
    /\ phase = "idle"
    /\ Connected /\ client[1].disconnect_rx = 0
    /\ client' = <<[client[1] EXCEPT !.disconnect_rx = 1]>>
    /\ UNCHANGED <<world, terrain, server>>

\* A Welcome reaches the client while the read task is running.
ConnectionWelcome ==
    /\ Connected /\ client[1].disconnect_rx = 0
    /\ ServerWelcome

\* The chunks check_connection_status despawns: the query (Entity, &Chunk, ..).
CleanupQuery == Entities

check_connection_status ==
    /\ phase = "update"
    /\ Connected
    /\ client[1].disconnect_rx > 0
    /\ LET q == SetToSeq(CleanupQuery)
       IN  /\ client' = <<[client[1] EXCEPT !.disconnect_rx = @ - 1, !.connected = FALSE,
                                            !.world_seed = <<>>]>>
           /\ seed' = client[1].original_seed
           /\ spawned_chunks' = spawned_chunks \ {Coord(e) : e \in CleanupQuery}
           /\ cmds' = [cmds EXCEPT !["check_connection_status"] =
                         [i \in 1..Len(q) |-> [op |-> "despawn", e |-> q[i], arg |-> 0]]]
           /\ last_camera_chunk' = <<>>
           /\ to_spawn' = <<>>
           /\ lod_to_update' = <<>>
           /\ just_updated' = TRUE
    /\ UNCHANGED <<terrain, server, cam, prev_cam, settings, last_render_distance,
                   last_cam_pos, ent, meshes, next_entity, next_handle, inbox, phase,
                   todo, trace, budgets>>

\* The client is connected when the first frame begins; the viewpoint and
\* the settings stay as they are.
InitConnection ==
    /\ InitWorld
    /\ terrain = NoTerrain
    /\ trace = NoTrace
    /\ render_distance = 1
    /\ lod_quality_multiplier = 1
    /\ lod_distance_multiplier = 1
    /\ max_chunks_per_frame = MaxChunksPerFrame
    /\ moves_left = 0
    /\ resets_left = MaxResets
    /\ settings_left = 0
    /\ frames_left = MaxFrames

NextConnection ==
    \/ BeginFrame
    \/ generate_chunks
    \/ modify_plane
    \/ handle_compute_tasks
    \/ update_chunk_lod
    \/ receive_server_messages
    \/ check_connection_status
    \/ EndUpdate
    \/ despawn_out_of_bounds_chunks
    \/ EndFrame
    \/ ConnectionWelcome
    \/ ServerLost

SpecConnection == InitConnection /\ [][NextConnection]_vars

\* The disconnect has been handled: check_connection_status has cleared
\* client.connected.
DisconnectHandled == client # <<>> /\ ~ client[1].connected

\* C36: once check_connection_status has handled the loss of the connection,
\* the seed of the World Generator is the seed of the generator setup
\* created, the one in use before the Welcome replaced it.
C36_SeedRestored == DisconnectHandled => seed = LocalSeed

(***************************************************************************)
(* The relay server.  main accepts connections and spawns one              *)
(* handle_client task per connection; the tasks run concurrently and share *)
(* players, senders and next_player_id behind RwLocks, so a step of a task *)
(* is what it does while it holds one lock.  server.tasks[id] is the task  *)
(* of player id: its position (pc) and its locals; server.channels[id] is  *)
(* the sequence of messages placed on the unbounded channel whose receiver *)
(* is the write task of player id, in the order they were placed (the      *)
(* write task sends them to the socket in that order).  A position is the  *)
(* number of the update that carried it.                                   *)
(***************************************************************************)
PlayerIds == DOMAIN server.tasks

\* ServerMessage::Welcome { your_id, seed, existing_players, .. }
Welcome(your_id, world_seed, existing_players) ==
    [type |-> "Welcome", your_id |-> your_id, seed |-> world_seed,
     existing_players |-> existing_players]

\* PlayerState { id, position, rotation }
PlayerState(id, position) == [id |-> id, position |-> position]

\* ServerMessage::PlayerJoined { player }
PlayerJoined(player) == [type |-> "PlayerJoined", player |-> player]

\* ServerMessage::PlayerUpdate { id, position, rotation }
PlayerUpdate(id, position) == [type |-> "PlayerUpdate", id |-> id, position |-> position]

\* ServerMessage::PlayerLeft { id }
PlayerLeft(id) == [type |-> "PlayerLeft", id |-> id]

\* GameServer::broadcast: the message goes to every registered sender but
\* the excluded one; exclude is an Option.
broadcast(channels, senders, message, exclude) ==
    [id \in DOMAIN channels |->
        IF id \in senders /\ exclude # <<id>> THEN Append(channels[id], message)
        ELSE channels[id]]

\* GameServer::send_to
send_to(channels, senders, player_id, message) ==
    [id \in DOMAIN channels |->
        IF id = player_id /\ id \in senders THEN Append(channels[id], message)
        ELSE channels[id]]

\* The task of player id is at pc.
At(id, pc) == id \in PlayerIds /\ server.tasks[id].pc = pc

\* main: listener.accept() and tokio::spawn(handle_client), and the task's
\* first step, get_next_id under the write lock of next_player_id.
accept ==
    /\ Len(server.tasks) < MaxClients
    /\ server' = [server EXCEPT
          !.next_player_id = @ + 1,
          !.tasks = Append(@, [pc |-> "insert_sender", existing_players |-> {},
                               is_new |-> FALSE, position |-> 0]),
          !.channels = Append(@, <<>>)]
    /\ UNCHANGED <<world, terrain, client>>

\* server.senders.write().await.insert(player_id, tx)
insert_sender ==
    /\ \E id \in PlayerIds :
          /\ At(id, "insert_sender")
          /\ server' = [server EXCEPT !.senders = @ \cup {id},
                                      !.tasks[id].pc = "read_players"]
    /\ UNCHANGED <<world, terrain, client>>

\* let existing_players = server.players.read().await.values().cloned().collect()
read_players ==
    /\ \E id \in PlayerIds :
          /\ At(id, "read_players")
          /\ server' = [server EXCEPT
                !.tasks[id].existing_players =
                    {server.players[p] : p \in DOMAIN server.players},
                !.tasks[id].pc = "send_welcome"]
    /\ UNCHANGED <<world, terrain, client>>

\* server.send_to(player_id, welcome).await
send_welcome ==
    /\ \E id \in PlayerIds :
          /\ At(id, "send_welcome")
          /\ server' = [server EXCEPT
                !.channels = send_to(@, server.senders, id,
                                     Welcome(id, server.seed,
                                             server.tasks[id].existing_players)),
                !.tasks[id].pc = "receive"]
    /\ UNCHANGED <<world, terrain, client>>

\* ClientMessage::UpdatePosition: under the write lock of players, is_new
\* is computed and the state is inserted.
update_position ==
    /\ \E id \in PlayerIds :
          /\ At(id, "receive")
          /\ server.tasks[id].position < MaxPositionUpdates
          /\ LET position == server.tasks[id].position + 1
             IN  server' = [server EXCEPT
                    !.players = [p \in DOMAIN @ \cup {id} |->
                                    IF p = id THEN PlayerState(id, position) ELSE @[p]],
                    !.tasks[id].is_new = id \notin DOMAIN server.players,
                    !.tasks[id].position = position,
                    !.tasks[id].pc = "broadcast"]
    /\ UNCHANGED <<world, terrain, client>>

\* The broadcast of the update: PlayerJoined if is_new, else PlayerUpdate,
\* to everyone but the player itself.
broadcast_position ==
    /\ \E id \in PlayerIds :
          /\ At(id, "broadcast")
          /\ LET position == server.tasks[id].position
                 message == IF server.tasks[id].is_new
                            THEN PlayerJoined(PlayerState(id, position))
                            ELSE PlayerUpdate(id, position)
             IN  server' = [server EXCEPT
                    !.channels = broadcast(@, server.senders, message, <<id>>),
                    !.tasks[id].pc = "receive"]
    /\ UNCHANGED <<world, terrain, client>>

\* ClientMessage::Disconnect, the end of the stream or a read error: the
\* loop breaks.
disconnect ==
    /\ \E id \in PlayerIds :
          /\ At(id, "receive")
          /\ server' = [server EXCEPT !.tasks[id].pc = "remove_player"]
    /\ UNCHANGED <<world, terrain, client>>

\* cleanup_player: server.players.write().await.remove(&player_id)
remove_player ==
    /\ \E id \in PlayerIds :
          /\ At(id, "remove_player")
          /\ server' = [server EXCEPT
                !.players = [p \in DOMAIN @ \ {id} |-> @[p]],
                !.tasks[id].pc = "remove_sender"]
    /\ UNCHANGED <<world, terrain, client>>

\* cleanup_player: server.senders.write().await.remove(&player_id)
remove_sender ==
    /\ \E id \in PlayerIds :
          /\ At(id, "remove_sender")
          /\ server' = [server EXCEPT !.senders = @ \ {id},
                                      !.tasks[id].pc = "broadcast_left"]
    /\ UNCHANGED <<world, terrain, client>>

\* cleanup_player: server.broadcast(PlayerLeft { id }, None)
broadcast_left ==
    /\ \E id \in PlayerIds :
          /\ At(id, "broadcast_left")
          /\ server' = [server EXCEPT
                !.channels = broadcast(@, server.senders, PlayerLeft(id), <<>>),
                !.tasks[id].pc = "done"]
    /\ UNCHANGED <<world, terrain, client>>

\* The server after GameServer::new(), no connection accepted yet.
InitServer ==
    /\ InitWorld
    /\ terrain = NoTerrain
    /\ trace = NoTrace
    /\ render_distance = 1
    /\ lod_quality_multiplier = 1
    /\ lod_distance_multiplier = 1
    /\ max_chunks_per_frame = MaxChunksPerFrame
    /\ moves_left = 0 /\ resets_left = 0 /\ settings_left = 0 /\ frames_left = 0

NextServer ==
    \/ accept
    \/ insert_sender
    \/ read_players
    \/ send_welcome
    \/ update_position
    \/ broadcast_position
    \/ disconnect
    \/ remove_player
    \/ remove_sender
    \/ broadcast_left

SpecServer == InitServer /\ [][NextServer]_vars

\* C37: on every client's outgoing channel the first message is that
\* client's Welcome.
C37_WelcomeFirst ==
    \A id \in PlayerIds :
       server.channels[id] # <<>> =>
          /\ server.channels[id][1].type = "Welcome"
          /\ server.channels[id][1].your_id = id

\* How often the messages placed on the channel of player to so far tell it
\* of player about: the entries for about in the existing_players of its
\* Welcome, and the PlayerJoined messages for about.
ToldInWelcome(to, about) ==
    Cardinality({i \in DOMAIN server.channels[to] :
                    /\ server.channels[to][i].type = "Welcome"
                    /\ \E player \in server.channels[to][i].existing_players :
                          player.id = about})

ToldByJoin(to, about) ==
    Cardinality({i \in DOMAIN server.channels[to] :
                    /\ server.channels[to][i].type = "PlayerJoined"
                    /\ server.channels[to][i].player.id = about})

\* Player id is connected and its task is waiting for the next message: its
\* Welcome and the broadcasts of its updates so far have been placed.
Settled(id) == At(id, "receive")

\* C38: a connected client has been told exactly once about every other
\* connected player that has sent a position, by its Welcome or by a
\* PlayerJoined, and no channel carries a message about its own player.
C38_ToldExactlyOnce ==
    /\ \A to, about \in PlayerIds :
          (to # about /\ Settled(to) /\ Settled(about)
              /\ about \in DOMAIN server.players) =>
             ToldInWelcome(to, about) + ToldByJoin(to, about) = 1
    /\ \A id \in PlayerIds : \A i \in DOMAIN server.channels[id] :
          LET message == server.channels[id][i]
          IN  /\ message.type = "PlayerJoined" => message.player.id # id
              /\ message.type = "PlayerUpdate" => message.id # id
====
